---- MODULE Spec2Model ----
(***************************************************************************)
(* Verification model of pyroboplan's differential inverse kinematics      *)
(* solver, DifferentialIk.solve (src/src/pyroboplan/ik/differential_ik.py) *)
(* and the helpers it calls in src/src/pyroboplan/core/utils.py.           *)
(*                                                                         *)
(* Numbers.  Every real quantity of the program (joint values, pose        *)
(* coordinates, error norms, tolerances, damping) is a fixed-point number  *)
(* on one integer grid on which pi is PI grid units; a result that does not *)
(* fall on the grid is rounded to the nearest grid point, as a float is    *)
(* rounded to the nearest float.  Step sizes and the step scale alpha are  *)
(* exact rationals <<numerator, denominator>>.                             *)
(*                                                                         *)
(* Robot.  pinocchio is an external library; the model instantiates it     *)
(* with a serial chain whose joints all act on the z axis of the target    *)
(* frame: a revolute joint ("R") turns the frame about z, a prismatic      *)
(* joint ("P") slides it along z.  For this chain forward kinematics, the  *)
(* SE3 logarithm and the LOCAL frame Jacobian have the closed forms used   *)
(* below.                                                                  *)
(*                                                                         *)
(* The second part models CubicTrajectoryOptimization.plan                 *)
(* (src/src/pyroboplan/trajectory/trajectory_optimization.py) under its    *)
(* own specification PlanSpec: the mathematical program plan registers,    *)
(* the external solver as a choice among the values that satisfy it, and   *)
(* the trajectory plan returns.                                            *)
(*                                                                         *)
(* The third part models the planner of the same name in                   *)
(* src/src/pyroboplan/planning/trajectory_optimization.py (PlanningSpec)   *)
(* and the fourth the nullspace components of                              *)
(* src/src/pyroboplan/ik/nullspace_components.py (NullspaceSpec), whose    *)
(* collision and distance results are inputs, pinocchio and hpp-fcl being  *)
(* external.                                                               *)
(***************************************************************************)
EXTENDS Integers, Sequences, FiniteSets, TLC

\* ------------------------------------------------------------------------
\* Bounds of the explored inputs
\* ------------------------------------------------------------------------
MaxItersMax == 2        \* options.max_iters ranges over 0..MaxItersMax
MaxRetriesMax == 2      \* options.max_retries ranges over 0..MaxRetriesMax

\* ------------------------------------------------------------------------
\* Values
\* ------------------------------------------------------------------------
PI == 4                 \* np.pi, in grid units

None == <<>>
Some(x) == <<x>>

Abs(x) == IF x < 0 THEN -x ELSE x

\* a / b rounded to the nearest integer (b > 0).
RoundDiv(a, b) == (2 * a + b) \div (2 * b)

\* Floor of the square root of n >= 0.
ISqrt(n) == CHOOSE r \in 0..n : r * r <= n /\ (r + 1) * (r + 1) > n

\* np.linalg.norm of a vector whose only nonzero entries are x and y.
Norm2(x, y) == ISqrt(x * x + y * y)

\* Order on rationals <<n, d>> with d > 0.
RatLeq(a, b) == a[1] * b[2] <= b[1] * a[2]
RatEq(a, b) == a[1] * b[2] = b[1] * a[2]

\* ------------------------------------------------------------------------
\* The robot model (pinocchio.Model)
\* ------------------------------------------------------------------------
JointKind == <<"R", "P">>
NumJoints == Len(JointKind)
Joints == 1..NumJoints

\* model.lowerPositionLimit / model.upperPositionLimit.  The revolute
\* joint's upper limit lies beyond pi, as that of panda_joint6 does.
lowerPositionLimit == <<-1, 0>>
upperPositionLimit == <<5, 1>>

RECURSIVE SumKind(_, _, _)
SumKind(q, kind, n) ==
    IF n = 0 THEN 0
    ELSE SumKind(q, kind, n - 1) + (IF JointKind[n] = kind THEN q[n] ELSE 0)

CountKind(kind) == Cardinality({j \in Joints : JointKind[j] = kind})

\* The angle a brought into [-pi, pi).
WrapAngle(a) == ((a + PI) % (2 * PI)) - PI

\* pinocchio.framesForwardKinematics + data.oMf[target_frame_id]: the pose
\* of the target frame, a rotation about z (an angle modulo 2 pi) and a
\* translation along z.
ForwardKinematics(q) ==
    [rz |-> WrapAngle(SumKind(q, "R", NumJoints)),
     tz |-> SumKind(q, "P", NumJoints)]

\* error = -pinocchio.log(target_tform.actInv(cur_tform)).vector, the
\* translation part (lin) and the rotation part (ang).  log3 returns an
\* angle in (-pi, pi].
PoseError(target, cur) ==
    LET w == WrapAngle(cur.rz - target.rz)
        theta == IF w = -PI THEN PI ELSE w
    IN  [lin |-> target.tz - cur.tz, ang |-> -theta]

\* ------------------------------------------------------------------------
\* core/utils.py
\* ------------------------------------------------------------------------
\* check_within_limits with the lower limits left out.
check_within_limits_UpperOnly(q) ==
    \A j \in Joints : q[j] <= upperPositionLimit[j]

\* check_within_limits(model, q)
check_within_limits(q) ==
    /\ \A j \in Joints : q[j] >= lowerPositionLimit[j]
    /\ \A j \in Joints : q[j] <= upperPositionLimit[j]

\* Samples taken from the whole range of angles, whatever the limits.
RandomStates_AnyAngle == [Joints -> -PI..(2 * PI)]

\* get_random_state(model): the values np.random.uniform can return, one
\* per joint between the joint's limits.
RandomStates ==
    {q \in [Joints -> -PI..(2 * PI)] :
        \A j \in Joints : lowerPositionLimit[j] <= q[j] /\ q[j] <= upperPositionLimit[j]}

\* check_collisions_at_state(model, collision_model, q).  The collision
\* geometry is external; a collision model is given by the bend cm of the
\* revolute joint from which the chain collides with itself.
check_collisions_at_state(cm, q) == SumKind(q, "R", NumJoints) >= cm

\* ------------------------------------------------------------------------
\* ik/nullspace_components.py, as far as solve uses it: a component is
\* called as comp(model, q) and returns one value per joint.
\* ------------------------------------------------------------------------
zero_nullspace_component(q) == [j \in Joints |-> 0]

\* joint_center_nullspace_component with gain = 1
joint_center_nullspace_component(q) ==
    [j \in Joints |->
        ((lowerPositionLimit[j] + upperPositionLimit[j]) \div 2) - q[j]]

ApplyComponent(comp, q) ==
    IF comp = "joint_center" THEN joint_center_nullspace_component(q)
    ELSE zero_nullspace_component(q)

RECURSIVE NullspaceTerm(_, _)
\* sum([comp(self.model, q_cur) for comp in nullspace_components])
NullspaceTerm(comps, q) ==
    IF comps = <<>> THEN zero_nullspace_component(q)
    ELSE LET rest == NullspaceTerm(Tail(comps), q)
             head == ApplyComponent(Head(comps), q)
         IN  [j \in Joints |-> head[j] + rest[j]]

\* ------------------------------------------------------------------------
\* ik/differential_ik.py: the pieces of DifferentialIk.solve
\* ------------------------------------------------------------------------
\* The convergence test of an iteration.
ToleranceMet(error, o) ==
    /\ Abs(error.lin) < o.max_translation_error
    /\ Abs(error.ang) < o.max_rotation_error

\* The wrap without the final "- np.pi".
WrapToPi_NoShiftBack(q) == [j \in Joints |-> (q[j] + PI) % (2 * PI)]

\* q_cur = (q_cur + np.pi) % (2 * np.pi) - np.pi, applied to every joint.
WrapToPi(q) == [j \in Joints |-> ((q[j] + PI) % (2 * PI)) - PI]

\* SolvedAfterChecks without the collision branch.
SolvedAfterChecks_NoCollision(cm, q) == check_within_limits(q)

\* The value given to solved by the joint limit and collision checks made
\* on a converged, wrapped configuration.
SolvedAfterChecks(cm, q) ==
    IF check_within_limits(q)
    THEN IF cm # None
         THEN IF check_collisions_at_state(cm[1], q) THEN FALSE ELSE TRUE
         ELSE TRUE
    ELSE FALSE

\* Whether the collision check is called for a converged configuration.
CollisionCheckMade(cm, q) == check_within_limits(q) /\ cm # None

\* if not initial_error_norm: initial_error_norm = error_norm
\* (None and 0.0 are both false in Python).
InitialErrorNorm(recorded, error_norm) ==
    IF recorded = None \/ recorded = Some(0) THEN Some(error_norm) ELSE recorded

\* alpha = min_step_size + (1 - error_norm / initial_error_norm)
\*                         * (max_step_size - min_step_size)
\* as the exact rational <<numerator, denominator>>.
StepScale(error_norm, e0, o) ==
    LET mn == o.min_step_size
        mx == o.max_step_size
    IN  << mn[1] * mx[2] * e0 + (e0 - error_norm) * (mx[1] * mn[2] - mn[1] * mx[2]),
           mn[2] * mx[2] * e0 >>

\* The row of J J^T + damping^2 I that belongs to the error component the
\* joints of this kind move: every such joint is a unit column of J.
Jjt(kind, o) == CountKind(kind) + o.damping * o.damping

ErrorOfKind(error, kind) == IF kind = "P" THEN error.lin ELSE error.ang

\* The gradient descent step, q_cur += alpha * (...), with and without
\* nullspace components.
GradientStep(q, error, alpha, comps, o) ==
    IF comps = <<>>
    THEN [j \in Joints |->
            q[j] + RoundDiv(alpha[1] * ErrorOfKind(error, JointKind[j]),
                            alpha[2] * Jjt(JointKind[j], o))]
    ELSE LET ns == NullspaceTerm(comps, q)
             Jns(kind) == SumKind(ns, kind, NumJoints)
         IN  [j \in Joints |->
                LET k == JointKind[j]
                IN  q[j] + RoundDiv(
                        alpha[1] * (ErrorOfKind(error, k) - Jns(k) + ns[j] * Jjt(k, o)),
                        alpha[2] * Jjt(k, o))]

\* The outer loop test with < for <=: one attempt too few.
OuterLoopGuard_OneFewer(tries, o) == tries < o.max_retries

\* The outer loop test with one attempt too many.
OuterLoopGuard_OneMore(tries, o) == tries <= o.max_retries + 1

\* while n_tries <= self.options.max_retries
OuterLoopGuard(tries, o) == tries <= o.max_retries

\* The inner loop test taken as n_iters <= max_iters.
InnerLoopGuard_Inclusive(iters, o) == iters <= o.max_iters

\* while n_iters < self.options.max_iters
InnerLoopGuard(iters, o) == iters < o.max_iters

\* ------------------------------------------------------------------------
\* The inputs of a call of solve
\* ------------------------------------------------------------------------
\* (max_translation_error, max_rotation_error)
Tolerances == {<<1, 1>>, <<2, 2>>}

\* (min_step_size, max_step_size), each a rational between 0 and 1
StepSizes == { << <<1, 2>>, <<1, 1>> >>, << <<1, 1>>, <<1, 1>> >> }

\* damping; positive, so that J J^T + damping^2 I has an inverse
Dampings == {1}

DifferentialIkOptions ==
    {[max_iters |-> mi, max_retries |-> mr,
      max_translation_error |-> tol[1], max_rotation_error |-> tol[2],
      damping |-> d, min_step_size |-> ss[1], max_step_size |-> ss[2]] :
        mi \in 0..MaxItersMax, mr \in 0..MaxRetriesMax,
        tol \in Tolerances, d \in Dampings, ss \in StepSizes}

\* init_state: absent, or the caller's array.  Some arrays lie outside the
\* joint limits or outside [-pi, pi).
InitStates ==
    {None, Some(<<0, 1>>), Some(<<3, 1>>), Some(<<5, 1>>), Some(<<0, 2 * PI + 1>>)}

\* target_tform
TargetTforms ==
    {[rz |-> 0, tz |-> 1], [rz |-> 3, tz |-> 1], [rz |-> -3, tz |-> 1],
     [rz |-> 0, tz |-> 2 * PI + 1]}

\* collision_model: absent, or a collision model
CollisionModels == {None, Some(2)}

\* nullspace_components
NullspaceLists == {<<>>, <<"joint_center">>}

\* ------------------------------------------------------------------------
\* State
\* ------------------------------------------------------------------------
VARIABLES
    pc,                 \* where solve is: "call", "inner", "end_try", "return", "done"
    options,            \* self.options
    collision_model,    \* self.collision_model
    target_tform,       \* the target_tform argument
    nullspace_components, \* the nullspace_components argument
    init_arg,           \* the init_state argument as the caller passed it
    caller_array,       \* what the caller's init_state array holds now
    aliased,            \* q_cur and the caller's array are the same object
    q_cur, solved, n_tries, n_iters, initial_error_norm,  \* locals of solve
    result,             \* the value returned
    attempts,           \* number of times the body of the outer loop was entered
    n_steps,            \* number of gradient descent steps taken in the call
    n_samples,          \* number of calls of get_random_state
    last_sample,        \* the latest value returned by get_random_state
    alpha,              \* the alpha of the latest step of the current attempt
    step_norm,          \* the error_norm of that step
    first_norm,         \* the error_norm at the first iteration of the current attempt
    converged,          \* the current attempt met both tolerances
    checked,            \* the wrapped configuration that passed the checks
    collision_checked   \* check_collisions_at_state was called

inputs == <<options, collision_model, target_tform, nullspace_components, init_arg>>
locals == <<q_cur, solved, n_tries, n_iters, initial_error_norm>>
history == <<attempts, n_steps, n_samples, last_sample, alpha,
             step_norm, first_norm, converged, checked, collision_checked>>
ik_state == <<pc, inputs, caller_array, aliased, locals, result, history>>

\* The state of a CubicTrajectoryOptimization planner and of its plan calls
\* (src/src/pyroboplan/trajectory/trajectory_optimization.py).
VARIABLES
    plan_pc,            \* where the planner program is: "new", "options", "ready",
                        \*   "build", "solve", "result", "stopped"
    plan_options,       \* the CubicTrajectoryOptimizationOptions object, None if none exists
    q_path,             \* the q_path argument of the current plan call
    fully_specified_path, \* local of plan
    limits,             \* the six processed limit vectors, None before they exist
    prog,               \* the MathematicalProgram of the current call, None before it exists
    solver_calls,       \* number of Solve calls made by the current plan call
    solve_result,       \* what Solve returned, None before it returns
    outcome,            \* how the latest call ended: "pending", "ValueError",
                        \*   "warned", "failed", "trajectory"
    returned,           \* the value the latest plan call returned
    latest_trajectory,  \* self.latest_trajectory, None while it was never assigned
    trajectory_before,  \* latest_trajectory when the current plan call began
    num_calls,          \* number of plan calls begun
    collision_eval      \* the latest evaluation of _collision_constraint by the solver

plan_state == <<plan_pc, plan_options, q_path, fully_specified_path, limits, prog,
                solver_calls, solve_result, outcome, returned, latest_trajectory,
                trajectory_before, num_calls, collision_eval>>

\* The state of a call of a function of ik/nullspace_components.py and of
\* the planner of planning/trajectory_optimization.py.
VARIABLES
    null_call,          \* the function called and its arguments, None if none was called
    null_result,        \* what the call returned or raised, None before it ends
    planning_pc,        \* where the planner program is: "new", "ready", "solve", "result"
    planning_args,      \* <<q_start, q_goal>> of the current plan call
    planning_prog,      \* the MathematicalProgram of the current call
    planning_result,    \* what Solve returned, None before it returns
    planning_returned,  \* the value the latest plan call returned
    planning_trajectory, \* self.latest_trajectory
    planning_calls      \* number of plan calls begun

null_state == <<null_call, null_result>>
planning_state == <<planning_pc, planning_args, planning_prog, planning_result,
                    planning_returned, planning_trajectory, planning_calls>>

vars == <<ik_state, plan_state, null_state, planning_state>>

\* No nullspace component is being called on its own.
NoNullspaceCall ==
    /\ null_call = None
    /\ null_result = None

\* No planner of planning/trajectory_optimization.py exists.
NoPlanning ==
    /\ planning_pc = "new"
    /\ planning_args = None
    /\ planning_prog = None
    /\ planning_result = None
    /\ planning_returned = None
    /\ planning_trajectory = None
    /\ planning_calls = 0

\* No planner exists; the state of the planner variables while solve runs.
NoPlanner ==
    /\ plan_pc = "new"
    /\ plan_options = None
    /\ q_path = None
    /\ fully_specified_path = FALSE
    /\ limits = None
    /\ prog = None
    /\ solver_calls = 0
    /\ solve_result = None
    /\ outcome = "pending"
    /\ returned = None
    /\ latest_trajectory = None
    /\ trajectory_before = None
    /\ num_calls = 0
    /\ collision_eval = None

ZeroState == [j \in Joints |-> 0]

\* A DifferentialIk object has been built and solve is about to be called.
Init ==
    /\ NoNullspaceCall
    /\ NoPlanning
    /\ pc = "call"
    /\ options \in DifferentialIkOptions
    /\ collision_model \in CollisionModels
    /\ target_tform \in TargetTforms
    /\ nullspace_components \in NullspaceLists
    /\ init_arg \in InitStates
    /\ caller_array = init_arg
    /\ aliased = FALSE
    /\ q_cur = ZeroState
    /\ solved = FALSE
    /\ n_tries = 0
    /\ n_iters = 0
    /\ initial_error_norm = None
    /\ result = None
    /\ attempts = 0
    /\ n_steps = 0
    /\ n_samples = 0
    /\ last_sample = None
    /\ alpha = None
    /\ step_norm = 0
    /\ first_norm = None
    /\ converged = FALSE
    /\ checked = None
    /\ collision_checked = FALSE
    /\ NoPlanner

\* ------------------------------------------------------------------------
\* Actions: DifferentialIk.solve
\* ------------------------------------------------------------------------
\* Lines 159-160: the outer loop test with n_tries = tries;
\* either an attempt starts, with n_iters = 0, or the loop ends.
OuterLoopTest(tries) ==
    IF OuterLoopGuard(tries, options)
    THEN /\ pc' = "inner"
         /\ n_iters' = 0
         /\ attempts' = attempts + 1
    ELSE /\ pc' = "return"
         /\ UNCHANGED <<n_iters, attempts>>

\* Lines 142-160: sample an initial state if none is given, initialise, and
\* enter the outer loop.  q_cur = init_state binds q_cur to the caller's
\* array itself.
Begin ==
    /\ pc = "call"
    /\ IF init_arg = None
       THEN \E s \in RandomStates :
                /\ q_cur' = s
                /\ last_sample' = Some(s)
                /\ n_samples' = n_samples + 1
                /\ aliased' = FALSE
                /\ OuterLoopTest(0)
       ELSE /\ q_cur' = init_arg[1]
            /\ aliased' = TRUE
            /\ UNCHANGED <<last_sample, n_samples>>
            /\ OuterLoopTest(0)
    /\ solved' = FALSE
    /\ n_tries' = 0
    /\ initial_error_norm' = None
    /\ UNCHANGED <<null_state, planning_state, plan_state,
                   inputs, caller_array, result, n_steps, alpha, step_norm,
                   first_norm, converged, checked, collision_checked>>

\* Lines 161-197: an iteration that meets both tolerances wraps q_cur into
\* a new array, checks joint limits and collisions, and leaves the inner loop.
IterationConverged ==
    /\ pc = "inner"
    /\ InnerLoopGuard(n_iters, options)
    /\ ToleranceMet(PoseError(target_tform, ForwardKinematics(q_cur)), options)
    /\ LET q == WrapToPi(q_cur)
       IN  /\ q_cur' = q
           /\ solved' = SolvedAfterChecks(collision_model, q)
           /\ checked' = IF SolvedAfterChecks(collision_model, q) THEN Some(q) ELSE checked
           /\ collision_checked' =
                (collision_checked \/ CollisionCheckMade(collision_model, q))
    /\ converged' = TRUE
    /\ aliased' = FALSE
    /\ pc' = "end_try"
    /\ UNCHANGED <<null_state, planning_state, plan_state,
                   inputs, caller_array, n_tries, n_iters, initial_error_norm,
                   result, attempts, n_steps, n_samples, last_sample,
                   alpha, step_norm, first_norm>>

\* Lines 161-232: an iteration that does not meet the tolerances takes one
\* gradient descent step, in place (q_cur += ...).
IterationStep ==
    /\ pc = "inner"
    /\ InnerLoopGuard(n_iters, options)
    /\ LET error == PoseError(target_tform, ForwardKinematics(q_cur))
           error_norm == Norm2(error.lin, error.ang)
           e0 == InitialErrorNorm(initial_error_norm, error_norm)
           a == StepScale(error_norm, e0[1], options)
           q == GradientStep(q_cur, error, a, nullspace_components, options)
       IN  /\ ~ToleranceMet(error, options)
           /\ initial_error_norm' = e0
           /\ alpha' = Some(a)
           /\ step_norm' = error_norm
           /\ first_norm' = IF n_iters = 0 THEN Some(error_norm) ELSE first_norm
           /\ q_cur' = q
           /\ caller_array' = IF aliased THEN Some(q) ELSE caller_array
    /\ n_iters' = n_iters + 1
    /\ n_steps' = n_steps + 1
    /\ UNCHANGED <<null_state, planning_state, plan_state,
                   pc, inputs, aliased, solved, n_tries, result, attempts,
                   n_samples, last_sample, converged, checked,
                   collision_checked>>

\* Line 161: the inner loop ends after max_iters iterations.
IterationsExhausted ==
    /\ pc = "inner"
    /\ ~InnerLoopGuard(n_iters, options)
    /\ pc' = "end_try"
    /\ UNCHANGED <<null_state, planning_state, plan_state,
                   inputs, caller_array, aliased, locals, result, history>>

\* The end of a solved attempt without the break: the outer loop goes on
\* with a new sample.
EndTrySolved_NoBreak ==
    /\ pc = "end_try"
    /\ solved
    /\ \E s \in RandomStates :
            /\ q_cur' = s
            /\ last_sample' = Some(s)
    /\ n_samples' = n_samples + 1
    /\ n_tries' = n_tries + 1
    /\ pc' = IF OuterLoopGuard(n_tries + 1, options) THEN "inner" ELSE "return"
    /\ n_iters' = 0
    /\ attempts' = IF OuterLoopGuard(n_tries + 1, options) THEN attempts + 1 ELSE attempts
    /\ UNCHANGED <<null_state, planning_state, plan_state,
                   inputs, caller_array, aliased, solved, initial_error_norm,
                   result, n_steps, alpha, step_norm, first_norm, converged,
                   checked, collision_checked>>

\* Lines 239-242: a solved attempt leaves the outer loop.
EndTrySolved ==
    /\ pc = "end_try"
    /\ solved
    /\ pc' = "return"
    /\ UNCHANGED <<null_state, planning_state, plan_state,
                   inputs, caller_array, aliased, locals, result, history>>

\* Lines 243-245 and 159-160: an unsolved attempt samples a new state and
\* counts a try; the outer loop test follows.
EndTryRetry ==
    /\ pc = "end_try"
    /\ ~solved
    /\ \E s \in RandomStates :
            /\ q_cur' = s
            /\ last_sample' = Some(s)
            /\ OuterLoopTest(n_tries + 1)
    /\ n_samples' = n_samples + 1
    /\ aliased' = FALSE
    /\ n_tries' = n_tries + 1
    /\ alpha' = None
    /\ step_norm' = 0
    /\ first_norm' = None
    /\ converged' = FALSE
    /\ UNCHANGED <<null_state, planning_state, plan_state,
                   inputs, caller_array, solved, initial_error_norm, result,
                   n_steps, checked, collision_checked>>

\* Lines 249-253: return q_cur if solved, None otherwise.
Return ==
    /\ pc = "return"
    /\ result' = IF solved THEN Some(q_cur) ELSE None
    /\ pc' = "done"
    /\ UNCHANGED <<null_state, planning_state, plan_state,
                   inputs, caller_array, aliased, locals, history>>

Next ==
    \/ Begin
    \/ IterationConverged
    \/ IterationStep
    \/ IterationsExhausted
    \/ EndTrySolved
    \/ EndTryRetry
    \/ Return

Spec == Init /\ [][Next]_vars

TypeOK ==
    /\ pc \in {"call", "inner", "end_try", "return", "done"}
    /\ solved \in BOOLEAN
    /\ aliased \in BOOLEAN
    /\ converged \in BOOLEAN
    /\ n_tries \in 0..(options.max_retries + 1)
    /\ n_iters \in 0..options.max_iters

\* ------------------------------------------------------------------------
\* Trajectory optimization (src/src/pyroboplan/trajectory/
\* trajectory_optimization.py): bounds, numbers and arrays
\* ------------------------------------------------------------------------
MaxNumWaypoints == 3    \* num_waypoints ranges over 1..MaxNumWaypoints
MaxSamples == 3         \* samples_per_segment ranges over 1..MaxSamples
MaxPlanCalls == 2       \* plan is called at most MaxPlanCalls times on a planner

Inf == 1000             \* np.inf: exceeds every other quantity of the model

\* np.array(limits): a 0-dimensional array of a scalar, a 1-dimensional
\* array of a list.
Scalar(v) == [shape |-> <<>>, data |-> <<v>>]
Vector(s) == [shape |-> <<Len(s)>>, data |-> s]

\* The shape test taken as "fewer entries than degrees of freedom".
process_limits_TooShortOnly(lim, num_dofs) ==
    IF Len(lim.shape) = 0 \/ lim.shape[1] = 1
    THEN Some([n \in 1..num_dofs |-> lim.data[1]])
    ELSE IF lim.shape[1] < num_dofs
         THEN None
         ELSE Some(lim.data)

\* Lines 145-150.  Some(array) is the array returned, None a ValueError.
\* limits * np.ones(num_dofs) broadcasts the single entry.
process_limits(lim, num_dofs) ==
    IF Len(lim.shape) = 0 \/ lim.shape[1] = 1
    THEN Some([n \in 1..num_dofs |-> lim.data[1]])
    ELSE IF lim.shape # <<num_dofs>>
         THEN None
         ELSE Some(lim.data)

\* The constructor with the test min_segment_time < 0.
CubicTrajectoryOptimizationOptions_ZeroTime(a) ==
    IF a.num_waypoints < 2
    THEN None
    ELSE IF a.min_segment_time < 0
         THEN None
         ELSE Some(a)

\* Lines 69-88.  Some(object) is the options object built, None a ValueError.
CubicTrajectoryOptimizationOptions(a) ==
    IF a.num_waypoints < 2
    THEN None
    ELSE IF a.min_segment_time <= 0
         THEN None
         ELSE Some(a)

\* ------------------------------------------------------------------------
\* Trajectory optimization: the inputs the model draws from
\* ------------------------------------------------------------------------
LimitNames == <<"min_vel", "max_vel", "min_accel", "max_accel", "min_jerk", "max_jerk">>

\* Lines 21-26: the default limits.
DefaultLimits ==
    [min_vel |-> Scalar(-Inf), max_vel |-> Scalar(Inf),
     min_accel |-> Scalar(-Inf), max_accel |-> Scalar(Inf),
     min_jerk |-> Scalar(-Inf), max_jerk |-> Scalar(Inf)]

\* The finite limit the model passes: -LimitValue for a minimum, LimitValue
\* for a maximum.
LimitValue == 6

IsMinimum(name) == name \in {"min_vel", "min_accel", "min_jerk"}

\* The limit arguments: the defaults, or one limit given as a list of
\* 1..NumJoints+1 equal entries.
LimitArgs ==
    {DefaultLimits} \cup
    { [DefaultLimits EXCEPT ![LimitNames[i]] =
            Vector([n \in 1..len |->
                      IF IsMinimum(LimitNames[i]) THEN -LimitValue ELSE LimitValue])] :
        i \in 1..Len(LimitNames), len \in 1..(NumJoints + 1) }

\* The distances given when collisions are checked: <<min_collision_dist,
\* collision_influence_dist>>.
CollisionDists == {<<0, 1>>, <<2, 1>>}

\* One set of arguments of CubicTrajectoryOptimizationOptions(...); dists
\* is <<min_collision_dist, collision_influence_dist>>.
Args(nw, sps, tmin, l, cc, dists) ==
    [num_waypoints |-> nw, samples_per_segment |-> sps,
     min_segment_time |-> tmin, max_segment_time |-> 2,
     min_vel |-> l.min_vel, max_vel |-> l.max_vel,
     min_accel |-> l.min_accel, max_accel |-> l.max_accel,
     min_jerk |-> l.min_jerk, max_jerk |-> l.max_jerk,
     check_collisions |-> cc,
     min_collision_dist |-> dists[1],
     collision_influence_dist |-> dists[2]]

\* The argument sets the model constructs options with: the number of
\* waypoints, the samples per segment and the minimum segment time vary
\* with default limits; each limit varies; the collision distances vary.
OptionsArgs ==
    { Args(nw, 2, tmin, DefaultLimits, FALSE, <<0, 1>>) :
        nw \in 1..MaxNumWaypoints, tmin \in {0, 1} }
    \cup
    { Args(nw, sps, 1, DefaultLimits, FALSE, <<0, 1>>) : nw \in 2..3, sps \in 0..MaxSamples }
    \cup
    { Args(2, 2, 1, l, FALSE, <<0, 1>>) : l \in LimitArgs }
    \cup
    { Args(nw, 2, 1, DefaultLimits, TRUE, d) : nw \in 2..3, d \in CollisionDists }

\* The configurations the waypoint lists are made of.
Waypoints == << <<0, 0>>, <<4, 0>> >>

\* A waypoint list of len entries, starting at the first-th of Waypoints.
PathOfLen(len, first) ==
    [i \in 1..len |-> Waypoints[((first + i - 2) % Len(Waypoints)) + 1]]

\* The q_path arguments: lists of 0..MaxNumWaypoints+1 entries.
QPaths == { PathOfLen(len, first) : len \in 0..(MaxNumWaypoints + 1), first \in 1..2 }

\* ------------------------------------------------------------------------
\* Trajectory optimization: construction and the validation of plan
\* ------------------------------------------------------------------------
\* The state of the solve variables while a planner runs.
NoSolve ==
    /\ pc = "done"
    /\ options = None
    /\ collision_model = None
    /\ target_tform = None
    /\ nullspace_components = <<>>
    /\ init_arg = None
    /\ caller_array = None
    /\ aliased = FALSE
    /\ q_cur = ZeroState
    /\ solved = FALSE
    /\ n_tries = 0
    /\ n_iters = 0
    /\ initial_error_norm = None
    /\ result = None
    /\ attempts = 0
    /\ n_steps = 0
    /\ n_samples = 0
    /\ last_sample = None
    /\ alpha = None
    /\ step_norm = 0
    /\ first_norm = None
    /\ converged = FALSE
    /\ checked = None
    /\ collision_checked = FALSE

\* Before CubicTrajectoryOptimizationOptions(...) is called.
PlanInit == NoPlanner /\ NoSolve /\ NoNullspaceCall /\ NoPlanning

\* Lines 15-88: CubicTrajectoryOptimizationOptions.__init__.  A ValueError
\* ends the program with no options object.
OptionsInit ==
    /\ plan_pc = "new"
    /\ \E a \in OptionsArgs :
          /\ plan_options' = CubicTrajectoryOptimizationOptions(a)
          /\ IF CubicTrajectoryOptimizationOptions(a) = None
             THEN plan_pc' = "stopped" /\ outcome' = "ValueError"
             ELSE plan_pc' = "options" /\ outcome' = outcome
    /\ UNCHANGED <<null_state, planning_state, ik_state,
                   q_path, fully_specified_path, limits, prog, solver_calls,
                   solve_result, returned, latest_trajectory, trajectory_before,
                   num_calls, collision_eval>>

\* Lines 102-121: CubicTrajectoryOptimization.__init__ stores the options;
\* it does not assign latest_trajectory.
PlannerInit ==
    /\ plan_pc = "options"
    /\ plan_pc' = "ready"
    /\ UNCHANGED <<null_state, planning_state, ik_state,
                   plan_options, q_path, fully_specified_path, limits, prog,
                   solver_calls, solve_result, outcome, returned, latest_trajectory,
                   trajectory_before, num_calls, collision_eval>>

\* Lines 453-458: the six limits, processed in this order; None when one of
\* them raises ValueError.
ProcessedLimits(o, num_dofs) ==
    LET p == [i \in 1..Len(LimitNames) |-> process_limits(o[LimitNames[i]], num_dofs)]
    IN  IF \E i \in 1..Len(LimitNames) : p[i] = None
        THEN None
        ELSE Some([min_vel |-> p[1][1], max_vel |-> p[2][1],
                   min_accel |-> p[3][1], max_accel |-> p[4][1],
                   min_jerk |-> p[5][1], max_jerk |-> p[6][1]])

\* The length test taken as "at least num_waypoints entries".
PathCheck_AtLeast(len, num_waypoints) ==
    IF len = 0 THEN "warned"
    ELSE IF len >= num_waypoints THEN "fully_specified"
    ELSE IF len = 2 THEN "start_goal"
    ELSE "ValueError"

\* Lines 439-450: how plan takes a waypoint list of len entries.
PathCheck(len, num_waypoints) ==
    IF len = 0 THEN "warned"
    ELSE IF len = num_waypoints THEN "fully_specified"
    ELSE IF len = 2 THEN "start_goal"
    ELSE "ValueError"

\* Lines 439-458: plan is called; it checks the waypoint list and processes
\* the limits.  A call that returns None or raises leaves the planner ready
\* for the next call.
PlanValidate ==
    /\ plan_pc = "ready"
    /\ num_calls < MaxPlanCalls
    /\ \E path \in QPaths :
        LET o == plan_options[1]
            check == PathCheck(Len(path), o.num_waypoints)
            lims == IF Len(path) = 0 THEN None ELSE ProcessedLimits(o, Len(path[1]))
        IN  /\ q_path' = Some(path)
            /\ fully_specified_path' = (check = "fully_specified")
            /\ IF check \in {"warned", "ValueError"}
               THEN /\ outcome' = check
                    /\ limits' = None
                    /\ plan_pc' = "ready"
               ELSE IF lims = None
               THEN /\ outcome' = "ValueError"
                    /\ limits' = None
                    /\ plan_pc' = "ready"
               ELSE /\ outcome' = "pending"
                    /\ limits' = lims
                    /\ plan_pc' = "build"
    /\ num_calls' = num_calls + 1
    /\ prog' = None
    /\ solver_calls' = 0
    /\ solve_result' = None
    /\ returned' = None
    /\ trajectory_before' = latest_trajectory
    /\ collision_eval' = None
    /\ UNCHANGED <<null_state, planning_state, ik_state,
                   plan_options, latest_trajectory>>

\* ------------------------------------------------------------------------
\* Trajectory optimization: the program plan builds (lines 460-589)
\* ------------------------------------------------------------------------
RECURSIVE Flatten(_)
Flatten(ss) == IF ss = <<>> THEN <<>> ELSE Head(ss) \o Flatten(Tail(ss))

\* range(first, last) as a sequence.
Range(first, last) == [i \in 1..(last - first) |-> first + i - 1]

\* np.linspace(0.0, 1.0, num, endpoint=False).
linspace_NoEndpoint(num) ==
    IF num = 1 THEN << <<0, 1>> >> ELSE [i \in 1..num |-> <<i - 1, num>>]

\* np.linspace(0.0, 1.0, num), each parameter an exact rational.
linspace(num) ==
    IF num = 1 THEN << <<0, 1>> >> ELSE [i \in 1..num |-> <<i - 1, num - 1>>]

\* A registered constraint lb <= expression <= ub.  kind names the
\* expression: a row of decision variables ("x", "x_d", "h": a bounding
\* box), "collision" (the collision expression of row k of var), the two
\* collocation equalities ("xc", "xc_d"), a sampled "position", "velocity",
\* "acceleration" or "jerk" of segment k at step, or
\* "acceleration_continuity" between the segments k and k + 1.  k and n are
\* the source's indices, counted from 0; n = -1 stands for a whole row.
Constraint(kind, var, k, n, step, lb, ub) ==
    [kind |-> kind, var |-> var, k |-> k, n |-> n, step |-> step, lb |-> lb, ub |-> ub]

Zeros(num_dofs) == [n \in 1..num_dofs |-> 0]

\* The waypoint conditions with the goal put on row len(q_path) - 1.
WaypointConstraints_GoalAtPathEnd(path, fully, num_waypoints) ==
    IF fully
    THEN [i \in 1..num_waypoints |->
            Constraint("x", "x", i - 1, -1, None, path[i], path[i])]
    ELSE << Constraint("x", "x", 0, -1, None, path[1], path[1]),
            Constraint("x", "x", Len(path) - 1, -1, None,
                       path[Len(path)], path[Len(path)]) >>

\* Lines 468-474: the waypoint conditions.  x[-1, :] is row num_waypoints - 1.
WaypointConstraints(path, fully, num_waypoints) ==
    IF fully
    THEN [i \in 1..num_waypoints |->
            Constraint("x", "x", i - 1, -1, None, path[i], path[i])]
    ELSE << Constraint("x", "x", 0, -1, None, path[1], path[1]),
            Constraint("x", "x", num_waypoints - 1, -1, None,
                       path[Len(path)], path[Len(path)]) >>

\* Lines 475-477: the initial and final velocities.
EndVelocityConstraints(num_waypoints, num_dofs) ==
    << Constraint("x_d", "x_d", 0, -1, None, Zeros(num_dofs), Zeros(num_dofs)),
       Constraint("x_d", "x_d", num_waypoints - 1, -1, None,
                  Zeros(num_dofs), Zeros(num_dofs)) >>

\* Lines 483-494.
link_list ==
    << "panda_hand", "panda_link1", "panda_link2", "panda_link3", "panda_link4",
       "panda_link5", "panda_link6", "panda_link7", "panda_leftfinger",
       "panda_rightfinger" >>

\* The collision constraints with the collocation points taken over
\* range(1, num_waypoints - 1) as well.
CollisionConstraints_InteriorOnly(o) ==
    LET min_dist_val == [i \in 1..Len(link_list) |-> o.min_collision_dist]
        max_dist_val == [i \in 1..Len(link_list) |-> Inf]
        at_x == Range(1, o.num_waypoints - 1)
        at_xc == Range(1, o.num_waypoints - 1)
    IN  IF o.check_collisions
        THEN [i \in 1..Len(at_x) |->
                Constraint("collision", "x", at_x[i], -1, None, min_dist_val, max_dist_val)]
             \o
             [i \in 1..Len(at_xc) |->
                Constraint("collision", "xc", at_xc[i], -1, None, min_dist_val, max_dist_val)]
        ELSE <<>>

\* Lines 495-509: the collision constraints, none unless check_collisions.
CollisionConstraints(o) ==
    LET min_dist_val == [i \in 1..Len(link_list) |-> o.min_collision_dist]
        max_dist_val == [i \in 1..Len(link_list) |-> Inf]
        at_x == Range(1, o.num_waypoints - 1)
        at_xc == Range(0, o.num_waypoints - 1)
    IN  IF o.check_collisions
        THEN [i \in 1..Len(at_x) |->
                Constraint("collision", "x", at_x[i], -1, None, min_dist_val, max_dist_val)]
             \o
             [i \in 1..Len(at_xc) |->
                Constraint("collision", "xc", at_xc[i], -1, None, min_dist_val, max_dist_val)]
        ELSE <<>>

\* Lines 517-549: the constraints of segment k and degree of freedom n.
SegmentConstraints(o, lims, k, n) ==
    LET steps == linspace(o.samples_per_segment)
        ends == << <<0, 1>>, <<1, 1>> >>
    IN  << Constraint("xc", "xc", k, n, None, <<0>>, <<0>>),
           Constraint("xc_d", "xc_d", k, n, None, <<0>>, <<0>>) >>
        \o
        Flatten([i \in 1..Len(steps) |->
            << Constraint("position", "x", k, n, steps[i],
                          <<-Inf>>, <<upperPositionLimit[n + 1]>>),
               Constraint("position", "x", k, n, steps[i],
                          <<lowerPositionLimit[n + 1]>>, <<Inf>>),
               Constraint("velocity", "x_d", k, n, steps[i],
                          <<lims.min_vel[n + 1]>>, <<Inf>>),
               Constraint("velocity", "x_d", k, n, steps[i],
                          <<-Inf>>, <<lims.max_vel[n + 1]>>) >>])
        \o
        Flatten([i \in 1..Len(ends) |->
            << Constraint("acceleration", "x_d", k, n, ends[i],
                          <<lims.min_accel[n + 1]>>, <<Inf>>),
               Constraint("acceleration", "x_d", k, n, ends[i],
                          <<-Inf>>, <<lims.max_accel[n + 1]>>),
               Constraint("jerk", "x_d", k, n, ends[i],
                          <<lims.min_jerk[n + 1]>>, <<Inf>>),
               Constraint("jerk", "x_d", k, n, ends[i],
                          <<-Inf>>, <<lims.max_jerk[n + 1]>>) >>])

\* Acceleration continuity with the loop taken over range(num_waypoints - 3).
ContinuityConstraints_OneFewer(num_waypoints, n) ==
    LET ks == Range(0, num_waypoints - 3)
    IN  [i \in 1..Len(ks) |->
            Constraint("acceleration_continuity", "x_d", ks[i], n, None, <<0>>, <<0>>)]

\* Lines 551-557: acceleration continuity for degree of freedom n.
ContinuityConstraints(num_waypoints, n) ==
    LET ks == Range(0, num_waypoints - 2)
    IN  [i \in 1..Len(ks) |->
            Constraint("acceleration_continuity", "x_d", ks[i], n, None, <<0>>, <<0>>)]

\* Lines 511-557: the loop over the degrees of freedom.
DofConstraints(o, lims, num_dofs) ==
    Flatten([m \in 1..num_dofs |->
        Flatten([j \in 1..(o.num_waypoints - 1) |-> SegmentConstraints(o, lims, j - 1, m - 1)])
        \o ContinuityConstraints(o.num_waypoints, m - 1)])

\* The bounds of the segment times with the lower end 0.
DurationConstraints_FromZero(o) ==
    << Constraint("h", "h", -1, -1, None,
                  [k \in 1..(o.num_waypoints - 1) |-> 0],
                  [k \in 1..(o.num_waypoints - 1) |-> o.max_segment_time]) >>

\* Lines 559-562: the bounds of the segment times.
DurationConstraints(o) ==
    << Constraint("h", "h", -1, -1, None,
                  [k \in 1..(o.num_waypoints - 1) |-> o.min_segment_time],
                  [k \in 1..(o.num_waypoints - 1) |-> o.max_segment_time]) >>

\* Lines 570-589: the initial guess.  Entries are rationals <<p, q>>.
InitialGuess(o, path, init_path, fully, num_dofs) ==
    LET nw == o.num_waypoints
        src == IF init_path # None THEN init_path[1] ELSE path
        line == [i \in 1..(2 * nw - 1) |-> [n \in 1..num_dofs |->
                    << path[1][n] * (2 * nw - 2 - (i - 1)) + path[Len(path)][n] * (i - 1),
                       2 * nw - 2 >>]]
    IN  [x |-> IF init_path # None \/ fully
               THEN [k \in 1..nw |-> [n \in 1..num_dofs |-> <<src[k][n], 1>>]]
               ELSE [k \in 1..nw |-> line[2 * k - 1]],
         xc |-> IF init_path # None \/ fully
                THEN [k \in 1..(nw - 1) |->
                        [n \in 1..num_dofs |-> <<src[k][n] + src[k + 1][n], 2>>]]
                ELSE [k \in 1..(nw - 1) |-> line[2 * k]],
         h |-> [k \in 1..(nw - 1) |-> <<o.max_segment_time - o.min_segment_time, 2>>],
         x_d |-> [k \in 1..nw |-> [n \in 1..num_dofs |-> <<0, 1>>]],
         xc_d |-> [k \in 1..(nw - 1) |-> [n \in 1..num_dofs |-> <<0, 1>>]]]

\* Lines 460-589: the MathematicalProgram of a plan call: the shapes of its
\* decision variables, its constraints in the order plan registers them,
\* its cost (the matrix Q of the quadratic cost on h) and its initial guess.
Program(o, path, init_path, fully, lims) ==
    LET num_dofs == Len(path[1])
    IN  [x |-> <<o.num_waypoints, num_dofs>>,
         x_d |-> <<o.num_waypoints, num_dofs>>,
         xc |-> <<o.num_waypoints - 1, num_dofs>>,
         xc_d |-> <<o.num_waypoints - 1, num_dofs>>,
         h |-> <<o.num_waypoints - 1>>,
         constraints |->
            WaypointConstraints(path, fully, o.num_waypoints)
            \o EndVelocityConstraints(o.num_waypoints, num_dofs)
            \o CollisionConstraints(o)
            \o DofConstraints(o, lims, num_dofs)
            \o DurationConstraints(o),
         cost |-> [i \in 1..(o.num_waypoints - 1) |->
                     [j \in 1..(o.num_waypoints - 1) |-> IF i = j THEN 1 ELSE 0]],
         guess |-> InitialGuess(o, path, init_path, fully, num_dofs)]

\* Lines 460-589: plan creates the decision variables and registers the
\* constraints, the cost and the initial guess.
PlanBuild ==
    /\ plan_pc = "build"
    /\ prog' = Some(Program(plan_options[1], q_path[1], None,
                            fully_specified_path, limits[1]))
    /\ plan_pc' = "solve"
    /\ UNCHANGED <<null_state, planning_state, ik_state,
                   plan_options, q_path, fully_specified_path, limits,
                   solver_calls, solve_result, outcome, returned, latest_trajectory,
                   trajectory_before, num_calls, collision_eval>>

\* ------------------------------------------------------------------------
\* Trajectory optimization: exact arithmetic and the cubic segments
\* ------------------------------------------------------------------------
RECURSIVE Gcd(_, _)
Gcd(a, b) == IF b = 0 THEN a ELSE Gcd(b, a % b)

\* The rational p / q in lowest terms with a positive denominator; a zero
\* denominator (a division by zero) is kept as it is.
Rat(p, q) ==
    IF q = 0 THEN <<p, 0>>
    ELSE LET g == Gcd(Abs(p), Abs(q))
             s == IF q < 0 THEN -1 ELSE 1
         IN  <<(s * p) \div g, (s * q) \div g>>

RatAdd(a, b) == Rat(a[1] * b[2] + b[1] * a[2], a[2] * b[2])
RatSub(a, b) == Rat(a[1] * b[2] - b[1] * a[2], a[2] * b[2])
RatMul(a, b) == Rat(a[1] * b[1], a[2] * b[2])
RatDiv(a, b) == Rat(a[1] * b[2], a[2] * b[1])
RatOf(i) == <<i, 1>>

\* m[k, n] of a two-dimensional array and v[k] of a vector, indices from 0,
\* as rationals.
At(m, k, n) == RatOf(m[k + 1][n + 1])
AtVec(v, k) == RatOf(v[k + 1])

\* Lines 184 and 221: -3.0 * x_d[k, n] + 4.0 * xc_d[k, n] - x_d[k + 1, n].
QuadraticTerm(x_d, xc_d, k, n) ==
    RatSub(RatAdd(RatMul(RatOf(-3), At(x_d, k, n)), RatMul(RatOf(4), xc_d[k + 1][n + 1])),
           At(x_d, k + 1, n))

\* Lines 188 and 225: x_d[k, n] - 2.0 * xc_d[k, n] + x_d[k + 1, n].
CubicTerm(x_d, xc_d, k, n) ==
    RatAdd(RatSub(At(x_d, k, n), RatMul(RatOf(2), xc_d[k + 1][n + 1])),
           At(x_d, k + 1, n))

\* The position with the coefficient 1/3 on the cubic term.
eval_position_OneThird(x, x_d, xc_d, h, k, n, step) ==
    LET sh == RatMul(step, AtVec(h, k))
    IN  RatAdd(
            RatAdd(
                RatAdd(At(x, k, n), RatMul(At(x_d, k, n), sh)),
                RatDiv(RatMul(RatMul(<<1, 2>>, QuadraticTerm(x_d, xc_d, k, n)),
                              RatMul(sh, sh)),
                       AtVec(h, k))),
            RatDiv(RatMul(RatMul(<<1, 3>>, CubicTerm(x_d, xc_d, k, n)),
                          RatMul(sh, RatMul(sh, sh))),
                   RatMul(AtVec(h, k), AtVec(h, k))))

\* Lines 180-191.
eval_position(x, x_d, xc_d, h, k, n, step) ==
    LET sh == RatMul(step, AtVec(h, k))
    IN  RatAdd(
            RatAdd(
                RatAdd(At(x, k, n), RatMul(At(x_d, k, n), sh)),
                RatDiv(RatMul(RatMul(<<1, 2>>, QuadraticTerm(x_d, xc_d, k, n)),
                              RatMul(sh, sh)),
                       AtVec(h, k))),
            RatDiv(RatMul(RatMul(<<2, 3>>, CubicTerm(x_d, xc_d, k, n)),
                          RatMul(sh, RatMul(sh, sh))),
                   RatMul(AtVec(h, k), AtVec(h, k))))

\* Lines 219-228.
eval_velocity(x_d, xc_d, h, k, n, step) ==
    LET sh == RatMul(step, AtVec(h, k))
    IN  RatAdd(
            RatAdd(At(x_d, k, n),
                   RatDiv(RatMul(QuadraticTerm(x_d, xc_d, k, n), sh), AtVec(h, k))),
            RatDiv(RatMul(RatMul(RatOf(2), CubicTerm(x_d, xc_d, k, n)), RatMul(sh, sh)),
                   RatMul(AtVec(h, k), AtVec(h, k))))

\* Lines 256-258.
eval_acceleration(x_d, xc_d, h, k, n, step) ==
    LET sh == RatMul(step, AtVec(h, k))
    IN  RatAdd(
            RatDiv(QuadraticTerm(x_d, xc_d, k, n), AtVec(h, k)),
            RatDiv(RatMul(RatMul(RatOf(4), CubicTerm(x_d, xc_d, k, n)), sh),
                   RatMul(AtVec(h, k), AtVec(h, k))))

\* Line 286.
eval_jerk(x_d, xc_d, h, k, n, step) ==
    RatDiv(RatMul(RatOf(8), CubicTerm(x_d, xc_d, k, n)),
           RatMul(AtVec(h, k), AtVec(h, k)))

\* Lines 520-521: the right-hand side of the collocation position equality.
CollocationPosition(x, x_d, h, k, n) ==
    RatAdd(RatMul(<<1, 2>>, RatAdd(At(x, k, n), At(x, k + 1, n))),
           RatMul(RatDiv(AtVec(h, k), RatOf(8)),
                  RatSub(At(x_d, k, n), At(x_d, k + 1, n))))

\* Lines 525-526: the right-hand side of the collocation velocity equality.
CollocationVelocity(x, x_d, h, k, n) ==
    RatSub(RatMul(RatSub(RatOf(0), RatDiv(<<3, 2>>, AtVec(h, k))),
                  RatSub(At(x, k, n), At(x, k + 1, n))),
           RatMul(<<1, 4>>, RatAdd(At(x_d, k, n), At(x_d, k + 1, n))))

\* ------------------------------------------------------------------------
\* Trajectory optimization: the collision model and _collision_constraint
\* ------------------------------------------------------------------------
\* The collision model of the chain (pinocchio and hpp-fcl are external):
\* collision pair 0 is the hand against an obstacle that the hand reaches
\* when the revolute angle is ObstacleAngle, pair 1 is the hand against
\* link 1, which it reaches at the angle SelfCollisionAngle.
ObstacleAngle == 3
SelfCollisionAngle == -2

\* The two bodies of each collision pair, pairs counted from 0.
collisionPairs == << <<"panda_hand", "obstacle">>, <<"panda_hand", "panda_link1">> >>

\* Lines 288-301 for one link: the indices of the pairs the link is part of.
RECURSIVE PairsFrom(_, _)
PairsFrom(idx, link) ==
    IF idx >= Len(collisionPairs) THEN <<>>
    ELSE (IF collisionPairs[idx + 1][1] = link \/ collisionPairs[idx + 1][2] = link
          THEN <<idx>> ELSE <<>>) \o PairsFrom(idx + 1, link)

get_collision_pairs_involving(link) == PairsFrom(0, link)

\* Lines 497-499.
all_pairs == [i \in 1..Len(link_list) |-> get_collision_pairs_involving(link_list[i])]

\* The revolute angle of a configuration of rationals.
RECURSIVE RatSumKind(_, _, _)
RatSumKind(q, kind, n) ==
    IF n = 0 THEN RatOf(0)
    ELSE RatAdd(RatSumKind(q, kind, n - 1), IF JointKind[n] = kind THEN q[n] ELSE RatOf(0))

\* Lines 324-326 and 340: dr.min_distance of pair p at q, negative in
\* penetration.
min_distance(p, q) ==
    IF p = 0
    THEN RatSub(RatOf(ObstacleAngle), RatSumKind(q, "R", NumJoints))
    ELSE RatSub(RatSumKind(q, "R", NumJoints), RatOf(SelfCollisionAngle))

\* Lines 352-400: distance_vec / norm(distance_vec) @ (Jcoll2 - Jcoll1) of
\* pair p.  The second body of either pair does not move with the joints;
\* the hand moves with the revolute joints, towards the obstacle and away
\* from link 1 as the angle grows.
separation_jacobian(p) ==
    [j \in Joints |-> IF JointKind[j] = "R" THEN (IF p = 0 THEN -1 ELSE 1) ELSE 0]

\* np.sign of a rational.
Sign(r) == IF r[1] > 0 THEN 1 ELSE IF r[1] < 0 THEN -1 ELSE 0

RatLess(a, b) == a[1] * b[2] < b[1] * a[2]

\* Lines 331-344: the loop over the pairs of one body.  The locals after
\* the loop: min_distance_idx, min_distance, and dist, which holds the
\* distance of the pair visited last.
RECURSIVE ClosestPair(_, _, _, _)
ClosestPair(pairs, q, influence_dist, acc) ==
    IF pairs = <<>> THEN acc
    ELSE LET dist == min_distance(Head(pairs), q)
         IN  ClosestPair(Tail(pairs), q, influence_dist,
                IF RatLeq(dist, influence_dist) /\ RatLess(dist, acc.min_distance)
                THEN [min_distance_idx |-> Head(pairs), min_distance |-> dist, dist |-> dist]
                ELSE [acc EXCEPT !.dist = dist])

\* Lines 329-408 for one body: the AutoDiffXd(min_distance, gradient).
BodyDistance(pairs, q, influence_dist) ==
    LET found == ClosestPair(pairs, q, RatOf(influence_dist),
                    [min_distance_idx |-> -1, min_distance |-> RatOf(influence_dist),
                     dist |-> RatOf(0)])
    IN  [value |-> found.min_distance,
         gradient |->
            IF found.min_distance_idx >= 0
            THEN [j \in Joints |->
                    Sign(found.dist) * separation_jacobian(found.min_distance_idx)[j]]
            ELSE [j \in Joints |-> 0]]

\* Lines 303-410: one AutoDiffXd for each body of collision_pairs.
collision_constraint(q, influence_dist, collision_pairs) ==
    [i \in 1..Len(collision_pairs) |-> BodyDistance(collision_pairs[i], q, influence_dist)]

\* ------------------------------------------------------------------------
\* Trajectory optimization: the solver (pydrake's Solve, external)
\* ------------------------------------------------------------------------
\* lb <= value <= ub for a rational value; an infinite bound admits every value.
InBounds(value, lb, ub) ==
    /\ (lb <= -Inf \/ RatLeq(RatOf(lb), value))
    /\ (ub >= Inf \/ RatLeq(value, RatOf(ub)))

\* The values s of the decision variables satisfy the registered constraint c.
Satisfies(s, c, o) ==
    CASE c.kind \in {"x", "x_d"} ->
            \A n \in 1..Len(c.lb) :
                InBounds(RatOf(s[c.var][c.k + 1][n]), c.lb[n], c.ub[n])
      [] c.kind = "entry" ->
            InBounds(RatOf(s[c.var][c.k + 1][c.n + 1]), c.lb[1], c.ub[1])
      [] c.kind = "h" ->
            \A i \in 1..Len(c.lb) : InBounds(RatOf(s.h[i]), c.lb[i], c.ub[i])
      [] c.kind = "collision" ->
            LET q == IF c.var = "x"
                     THEN [n \in 1..Len(s.x[c.k + 1]) |-> RatOf(s.x[c.k + 1][n])]
                     ELSE s.xc[c.k + 1]
                value == collision_constraint(q, o.collision_influence_dist, all_pairs)
            IN  \A i \in 1..Len(c.lb) : InBounds(value[i].value, c.lb[i], c.ub[i])
      [] c.kind = "xc" ->
            RatEq(s.xc[c.k + 1][c.n + 1], CollocationPosition(s.x, s.x_d, s.h, c.k, c.n))
      [] c.kind = "xc_d" ->
            RatEq(s.xc_d[c.k + 1][c.n + 1], CollocationVelocity(s.x, s.x_d, s.h, c.k, c.n))
      [] c.kind = "position" ->
            InBounds(eval_position(s.x, s.x_d, s.xc_d, s.h, c.k, c.n, c.step),
                     c.lb[1], c.ub[1])
      [] c.kind = "velocity" ->
            InBounds(eval_velocity(s.x_d, s.xc_d, s.h, c.k, c.n, c.step), c.lb[1], c.ub[1])
      [] c.kind = "acceleration" ->
            InBounds(eval_acceleration(s.x_d, s.xc_d, s.h, c.k, c.n, c.step),
                     c.lb[1], c.ub[1])
      [] c.kind = "jerk" ->
            InBounds(eval_jerk(s.x_d, s.xc_d, s.h, c.k, c.n, c.step), c.lb[1], c.ub[1])
      [] c.kind = "acceleration_continuity" ->
            RatEq(eval_acceleration(s.x_d, s.xc_d, s.h, c.k, c.n, <<1, 1>>),
                  eval_acceleration(s.x_d, s.xc_d, s.h, c.k + 1, c.n, <<0, 1>>))

\* The values the solver searches: waypoint positions, waypoint velocities
\* and durations on these grids.
PositionGrid == {<<0, 0>>, <<4, 0>>, <<2, 1>>}
VelocityGrid == {<<0, 0>>, <<3, 0>>, <<-3, 0>>}
DurationGrid == 0..3

\* The rows of a grid within the bounding boxes registered for row k of var.
RowValues(var, k, grid, constraints) ==
    { v \in grid :
        \A i \in 1..Len(constraints) :
            /\ (constraints[i].kind = var /\ constraints[i].k = k) =>
                  \A n \in 1..Len(v) :
                      constraints[i].lb[n] <= v[n] /\ v[n] <= constraints[i].ub[n]
            /\ (constraints[i].kind = "entry" /\ constraints[i].var = var
                    /\ constraints[i].k = k) =>
                  /\ constraints[i].lb[1] <= v[constraints[i].n + 1]
                  /\ v[constraints[i].n + 1] <= constraints[i].ub[1] }

\* The durations within the bounding boxes registered for h.
DurationValues(k, constraints) ==
    { d \in DurationGrid :
        \A i \in 1..Len(constraints) :
            constraints[i].kind = "h" =>
                constraints[i].lb[k + 1] <= d /\ d <= constraints[i].ub[k + 1] }

\* Values of x, x_d and h with the collocation points they determine
\* (lines 518-527).
WithCollocation(x, x_d, h) ==
    [x |-> x, x_d |-> x_d, h |-> h,
     xc |-> [k \in 1..Len(h) |-> [n \in 1..Len(x[1]) |->
                CollocationPosition(x, x_d, h, k - 1, n - 1)]],
     xc_d |-> [k \in 1..Len(h) |-> [n \in 1..Len(x[1]) |->
                CollocationVelocity(x, x_d, h, k - 1, n - 1)]]]

\* The values within the bounding boxes of the program p.
Candidates(p) ==
    { WithCollocation(x, x_d, h) :
        x \in { f \in [1..p.x[1] -> PositionGrid] :
                  \A k \in 1..p.x[1] : f[k] \in RowValues("x", k - 1, PositionGrid, p.constraints) },
        x_d \in { f \in [1..p.x_d[1] -> VelocityGrid] :
                  \A k \in 1..p.x_d[1] :
                      f[k] \in RowValues("x_d", k - 1, VelocityGrid, p.constraints) },
        h \in { f \in [1..p.h[1] -> DurationGrid] :
                  \A k \in 1..p.h[1] : f[k] \in DurationValues(k - 1, p.constraints) } }

\* The values a successful Solve can return: they satisfy every constraint
\* of the program (the equalities are tested first).
Solutions(p, o) ==
    { s \in { c \in Candidates(p) :
                \A i \in 1..Len(p.constraints) :
                    p.constraints[i].lb = p.constraints[i].ub
                        => Satisfies(c, p.constraints[i], o) } :
        \A i \in 1..Len(p.constraints) : Satisfies(s, p.constraints[i], o) }

\* The values a failed result holds: those of the solver's last iterate,
\* which need not satisfy any constraint.
LastIterates(p) ==
    { [h |-> [k \in 1..p.h[1] |-> d], x |-> [k \in 1..p.x[1] |-> v],
       x_d |-> [k \in 1..p.x_d[1] |-> v]] :
        d \in {0}, v \in {<<0, 0>>, <<2, 1>>} }

\* Line 592: Solve(prog).  The solver reports success with values that
\* satisfy the program, or failure with the values of its last iterate.
PlanSolve ==
    /\ plan_pc = "solve"
    /\ \/ \E s \in Solutions(prog[1], plan_options[1]) :
              solve_result' = Some([is_success |-> TRUE, h |-> s.h, x |-> s.x, x_d |-> s.x_d])
       \/ \E s \in LastIterates(prog[1]) :
              solve_result' = Some([is_success |-> FALSE, h |-> s.h, x |-> s.x, x_d |-> s.x_d])
    /\ solver_calls' = solver_calls + 1
    /\ plan_pc' = "result"
    /\ UNCHANGED <<null_state, planning_state, ik_state,
                   plan_options, q_path, fully_specified_path, limits, prog,
                   outcome, returned, latest_trajectory, trajectory_before, num_calls,
                   collision_eval>>

\* Lines 500-509 and 303-410: while it solves a program that holds collision
\* constraints, the solver evaluates collision_expr at a configuration.
EvalCollisionConstraint ==
    /\ plan_pc = "solve"
    /\ \E i \in 1..Len(prog[1].constraints) : prog[1].constraints[i].kind = "collision"
    /\ \E q_val \in PositionGrid :
          collision_eval' =
              Some([q_val |-> q_val,
                    autodiffs |->
                        collision_constraint([j \in Joints |-> RatOf(q_val[j])],
                                             plan_options[1].collision_influence_dist,
                                             all_pairs)])
    /\ UNCHANGED <<null_state, planning_state, ik_state,
                   plan_pc, plan_options, q_path, fully_specified_path, limits,
                   prog, solver_calls, solve_result, outcome, returned, latest_trajectory,
                   trajectory_before, num_calls>>

\* The failure branch, clearing latest_trajectory as well.
PlanReturnNone_ClearsTrajectory ==
    /\ plan_pc = "result"
    /\ ~solve_result[1].is_success
    /\ returned' = None
    /\ latest_trajectory' = None
    /\ outcome' = "failed"
    /\ plan_pc' = "ready"
    /\ UNCHANGED <<null_state, planning_state, ik_state,
                   plan_options, q_path, fully_specified_path, limits, prog,
                   solver_calls, solve_result, trajectory_before, num_calls,
                   collision_eval>>

\* Lines 593-595: the solver failed; plan returns None.
PlanReturnNone ==
    /\ plan_pc = "result"
    /\ ~solve_result[1].is_success
    /\ returned' = None
    /\ outcome' = "failed"
    /\ plan_pc' = "ready"
    /\ UNCHANGED <<null_state, planning_state, ik_state,
                   plan_options, q_path, fully_specified_path, limits, prog,
                   solver_calls, solve_result, latest_trajectory, trajectory_before,
                   num_calls, collision_eval>>

\* np.cumsum(h).
RECURSIVE SumTo(_, _)
SumTo(h, i) == IF i = 0 THEN 0 ELSE SumTo(h, i - 1) + h[i]

cumsum(h) == [i \in 1..Len(h) |-> SumTo(h, i)]

\* m.T of an array of rows.
Transpose(m) == [n \in 1..Len(m[1]) |-> [k \in 1..Len(m) |-> m[k][n]]]

\* Lines 604-608: the arguments CubicPolynomialTrajectory is built from.
CubicPolynomialTrajectory(t, q, qd) == [t |-> t, q |-> q, qd |-> qd]

\* Lines 597-609: the solver succeeded; plan builds the trajectory from the
\* solver's values, stores it and returns it.
PlanReturnTrajectory ==
    /\ plan_pc = "result"
    /\ solve_result[1].is_success
    /\ LET h_opt == solve_result[1].h
           x_opt == solve_result[1].x
           x_d_opt == solve_result[1].x_d
           t_opt == <<0>> \o cumsum(h_opt)
           trajectory == CubicPolynomialTrajectory(t_opt, Transpose(x_opt), Transpose(x_d_opt))
       IN  /\ latest_trajectory' = Some(trajectory)
           /\ returned' = Some(trajectory)
    /\ outcome' = "trajectory"
    /\ plan_pc' = "ready"
    /\ UNCHANGED <<null_state, planning_state, ik_state,
                   plan_options, q_path, fully_specified_path, limits, prog,
                   solver_calls, solve_result, trajectory_before, num_calls, collision_eval>>

PlanNext ==
    \/ OptionsInit
    \/ PlannerInit
    \/ PlanValidate
    \/ PlanBuild
    \/ EvalCollisionConstraint
    \/ PlanSolve
    \/ PlanReturnNone
    \/ PlanReturnTrajectory

PlanSpec == PlanInit /\ [][PlanNext]_vars

\* ------------------------------------------------------------------------
\* planning/trajectory_optimization.py: CubicTrajectoryOptimization
\* ------------------------------------------------------------------------
\* Lines 55-64: the options plan sets itself.  The limits 1.0, 1.5 and 2.0
\* are rounded to the grid; min_segment_time (0.01) is the least duration of
\* the duration grid.
planning_options ==
    [num_waypoints |-> 3, min_segment_time |-> 1, max_segment_time |-> 100,
     min_vel |-> -1, max_vel |-> 1, min_accel |-> -2, max_accel |-> 2,
     min_jerk |-> -2, max_jerk |-> 2]

\* Lines 98-147 for degree of freedom n: the limit constraints of the
\* samples, on segment k.
planning_SampleConstraints(k, n) ==
    LET o == planning_options
        steps == linspace(11)
    IN  Flatten([i \in 1..Len(steps) |->
            << Constraint("velocity", "x_d", k, n, steps[i], <<-Inf>>, <<o.max_vel>>),
               Constraint("velocity", "x_d", k, n, steps[i], <<o.min_vel>>, <<Inf>>),
               Constraint("acceleration", "x_d", k, n, steps[i], <<-Inf>>, <<o.max_accel>>),
               Constraint("acceleration", "x_d", k, n, steps[i], <<o.min_accel>>, <<Inf>>),
               Constraint("jerk", "x_d", k, n, steps[i], <<-Inf>>, <<o.max_jerk>>),
               Constraint("jerk", "x_d", k, n, steps[i], <<o.min_jerk>>, <<Inf>>) >>])

\* Lines 78-163: the body of the loop over the degrees of freedom.  The loop
\* over the samples (line 98) comes after the loop over the segments (lines
\* 85-95) has ended, so it reads the k that loop left: num_waypoints - 2.
planning_DofConstraints(q_start, q_goal, n) ==
    LET nw == planning_options.num_waypoints
        segments == Range(0, nw - 1)
        k == segments[Len(segments)]
    IN  << Constraint("entry", "x", 0, n, None, <<q_start[n + 1]>>, <<q_start[n + 1]>>),
           Constraint("entry", "x", nw - 1, n, None, <<q_goal[n + 1]>>, <<q_goal[n + 1]>>),
           Constraint("entry", "x_d", 0, n, None, <<0>>, <<0>>),
           Constraint("entry", "x_d", nw - 1, n, None, <<0>>, <<0>>) >>
        \o Flatten([i \in 1..Len(segments) |->
              << Constraint("xc", "xc", segments[i], n, None, <<0>>, <<0>>),
                 Constraint("xc_d", "xc_d", segments[i], n, None, <<0>>, <<0>>) >>])
        \o planning_SampleConstraints(k, n)
        \o ContinuityConstraints(nw, n)

\* Lines 66-172: the MathematicalProgram of a plan call.
planning_Program(q_start, q_goal) ==
    LET o == planning_options
        num_dofs == Len(q_start)
    IN  [x |-> <<o.num_waypoints, num_dofs>>,
         x_d |-> <<o.num_waypoints, num_dofs>>,
         xc |-> <<o.num_waypoints - 1, num_dofs>>,
         xc_d |-> <<o.num_waypoints - 1, num_dofs>>,
         h |-> <<o.num_waypoints - 1>>,
         constraints |->
            Flatten([m \in 1..num_dofs |-> planning_DofConstraints(q_start, q_goal, m - 1)])
            \o << Constraint("h", "h", -1, -1, None,
                             [k \in 1..(o.num_waypoints - 1) |-> o.min_segment_time],
                             [k \in 1..(o.num_waypoints - 1) |-> o.max_segment_time]) >>,
         cost |-> [i \in 1..(o.num_waypoints - 1) |->
                     [j \in 1..(o.num_waypoints - 1) |-> IF i = j THEN 1 ELSE 0]]]

\* Before a planner is built.
PlanningInit == NoPlanning /\ NoPlanner /\ NoSolve /\ NoNullspaceCall

\* Lines 23-41: __init__.
PlanningNew ==
    /\ planning_pc = "new"
    /\ planning_trajectory' = None
    /\ planning_pc' = "ready"
    /\ UNCHANGED <<null_state, ik_state, plan_state, planning_args, planning_prog,
                   planning_result, planning_returned, planning_calls>>

\* Lines 43-172: plan(q_start, q_goal) builds its program.
PlanningBuild ==
    /\ planning_pc = "ready"
    /\ planning_calls < MaxPlanCalls
    /\ \E q_start \in PositionGrid, q_goal \in PositionGrid :
          /\ planning_args' = Some(<<q_start, q_goal>>)
          /\ planning_prog' = Some(planning_Program(q_start, q_goal))
    /\ planning_calls' = planning_calls + 1
    /\ planning_result' = None
    /\ planning_returned' = None
    /\ planning_pc' = "solve"
    /\ UNCHANGED <<null_state, ik_state, plan_state, planning_trajectory>>

\* Line 175: Solve(prog).
PlanningSolve ==
    /\ planning_pc = "solve"
    /\ \/ \E s \in Solutions(planning_prog[1], planning_options) :
              planning_result' =
                  Some([is_success |-> TRUE, h |-> s.h, x |-> s.x, x_d |-> s.x_d])
       \/ \E s \in LastIterates(planning_prog[1]) :
              planning_result' =
                  Some([is_success |-> FALSE, h |-> s.h, x |-> s.x, x_d |-> s.x_d])
    /\ planning_pc' = "result"
    /\ UNCHANGED <<null_state, ik_state, plan_state, planning_args, planning_prog,
                   planning_returned, planning_trajectory, planning_calls>>

\* Lines 176-178: the solver failed.
PlanningReturnNone ==
    /\ planning_pc = "result"
    /\ ~planning_result[1].is_success
    /\ planning_returned' = None
    /\ planning_pc' = "ready"
    /\ UNCHANGED <<null_state, ik_state, plan_state, planning_args, planning_prog,
                   planning_result, planning_trajectory, planning_calls>>

\* Lines 180-199: the solver succeeded.
PlanningReturnTrajectory ==
    /\ planning_pc = "result"
    /\ planning_result[1].is_success
    /\ LET h_opt == planning_result[1].h
           x_opt == planning_result[1].x
           x_d_opt == planning_result[1].x_d
           t_vec == <<0>> \o cumsum(h_opt)
       IN  planning_trajectory' =
               Some(CubicPolynomialTrajectory(t_vec, Transpose(x_opt), Transpose(x_d_opt)))
    /\ planning_returned' = planning_trajectory'
    /\ planning_pc' = "ready"
    /\ UNCHANGED <<null_state, ik_state, plan_state, planning_args, planning_prog,
                   planning_result, planning_calls>>

PlanningNext ==
    \/ PlanningNew
    \/ PlanningBuild
    \/ PlanningSolve
    \/ PlanningReturnNone
    \/ PlanningReturnTrajectory

PlanningSpec == PlanningInit /\ [][PlanningNext]_vars

\* ------------------------------------------------------------------------
\* ik/nullspace_components.py: the components called on their own
\* ------------------------------------------------------------------------
MaxPairs == 2           \* a collision model has at most MaxPairs collision pairs

\* The component with the padding added to the upper limits as well.
joint_limit_nullspace_component_PaddingAdded(q, gain, padding) ==
    LET upper_limits == [j \in Joints |-> upperPositionLimit[j] + padding]
        lower_limits == [j \in Joints |-> lowerPositionLimit[j] + padding]
        grad == zero_nullspace_component(q)
    IN  [idx \in Joints |->
            IF q[idx] > upper_limits[idx] THEN -gain * (q[idx] - upper_limits[idx])
            ELSE IF q[idx] < lower_limits[idx] THEN -gain * (q[idx] - lower_limits[idx])
            ELSE grad[idx]]

\* Lines 26-55: joint_limit_nullspace_component(model, q, gain, padding).
joint_limit_nullspace_component(q, gain, padding) ==
    LET upper_limits == [j \in Joints |-> upperPositionLimit[j] - padding]
        lower_limits == [j \in Joints |-> lowerPositionLimit[j] + padding]
        grad == zero_nullspace_component(q)
    IN  [idx \in Joints |->
            IF q[idx] > upper_limits[idx] THEN -gain * (q[idx] - upper_limits[idx])
            ELSE IF q[idx] < lower_limits[idx] THEN -gain * (q[idx] - lower_limits[idx])
            ELSE grad[idx]]

\* model.nframes: the universe frame 0 and the frame of each joint.
nframes == NumJoints + 1

\* Jframe[:3, :] of computeFrameJacobian(model, data, q, frame, LOCAL) for a
\* frame of the model: of the chain's joints only the prismatic ones up to
\* the frame move its origin, along its z axis.
FrameJacobian(frame) ==
    [r \in 1..3 |-> [j \in Joints |->
        IF r = 3 /\ JointKind[j] = "P" /\ j <= frame THEN 1 ELSE 0]]

\* What computeFrameJacobian does with a frame index that is not a frame of
\* the model: it raises (None), or it reads a Jacobian from where no frame is.
InvalidFrameOutcomes == {None} \cup { Some(FrameJacobian(f)) : f \in 0..(nframes - 1) }

\* Lines 134-137: the distance of a pair.
CollisionDistance(r) ==
    IF r.geometry.isCollision THEN r.geometry.distance_lower_bound
    ELSE r.geometry.min_distance

\* Lines 142-149: the vector from the first body to the second.
DistanceVec(r) ==
    LET g == r.geometry
    IN  IF g.isCollision
        THEN IF g.contact_at_point1
             THEN [i \in 1..3 |-> -g.normal[i] * g.penetration_depth]
             ELSE [i \in 1..3 |-> g.normal[i] * g.penetration_depth]
        ELSE [i \in 1..3 |-> g.nearest_point2[i] - g.nearest_point1[i]]

\* Line 157.
flip_order(parent_frame1, parent_frame2) ==
    parent_frame1 >= nframes \/ parent_frame2 > parent_frame1

\* The test of line 139 left out: no pair is skipped.
Skipped_Never(r, dist_padding) == FALSE

\* Lines 139-140: a pair beyond the padding is skipped.
Skipped(r, dist_padding) == CollisionDistance(r) > dist_padding

\* Lines 142-177 for the pair rs[p], which is not skipped: the frame the
\* Jacobian is asked for, whether line 166 negated the distance vector, the
\* distance vector after line 170, and delta_q.  Jcoll Jcoll^T is diagonal
\* for the Jacobians of this chain, and so is the matrix line 175 solves with.
PairStep(rs, p, dist_padding, damping, invalid) ==
    LET r == rs[p]
        dist == CollisionDistance(r)
        flip == flip_order(r.parent_frame1, r.parent_frame2)
        frame == IF flip THEN r.parent_frame2 ELSE r.parent_frame1
        raised == frame >= nframes /\ invalid = None
        Jcoll == IF frame < nframes THEN FrameJacobian(frame)
                 ELSE IF raised THEN FrameJacobian(0) ELSE invalid[1]
        vec == DistanceVec(r)
        flipped == [i \in 1..3 |-> IF flip THEN -vec[i] ELSE vec[i]]
        padded == [i \in 1..3 |->
                    IF Abs(dist) > 0
                    THEN RatMul(RatOf(flipped[i]), RatSub(RatOf(1), Rat(dist_padding, Abs(dist))))
                    ELSE RatOf(flipped[i])]
        jjt == [i \in 1..3 |-> Jcoll[i][1] * Jcoll[i][1] + Jcoll[i][2] * Jcoll[i][2]]
        solved_vec == [i \in 1..3 |-> RatDiv(padded[i], RatOf(jjt[i] + damping * damping))]
    IN  [pair |-> p, frame |-> frame, negated |-> flip, raised |-> raised,
         distance_vec |-> padded,
         delta_q |-> [j \in Joints |->
                        RatAdd(RatAdd(RatMul(RatOf(Jcoll[1][j]), solved_vec[1]),
                                      RatMul(RatOf(Jcoll[2][j]), solved_vec[2])),
                               RatMul(RatOf(Jcoll[3][j]), solved_vec[3]))]]

\* Lines 132-177: the steps of the loop over the pairs, one for each pair
\* that is not skipped, up to the first that raises.
PairSteps(rs, dist_padding, damping, invalid) ==
    LET near == SelectSeq([p \in 1..Len(rs) |-> p], LAMBDA p : ~Skipped(rs[p], dist_padding))
        steps == [k \in 1..Len(near) |-> PairStep(rs, near[k], dist_padding, damping, invalid)]
        raising == { k \in 1..Len(steps) : steps[k].raised }
    IN  IF raising = {} THEN steps
        ELSE SubSeq(steps, 1, CHOOSE k \in raising : \A m \in raising : k <= m)

\* Lines 121 and 177: coll_component after the first n steps.
RECURSIVE Accumulate(_, _)
Accumulate(steps, n) ==
    IF n = 0 THEN [j \in Joints |-> RatOf(0)]
    ELSE LET acc == Accumulate(steps, n - 1)
         IN  [j \in Joints |-> RatSub(acc[j], steps[n].delta_q[j])]

\* np.linalg.norm of a vector of rationals: exact whenever the sum of the
\* squares is the square of a rational, as it is for the vectors of this
\* chain, which move the prismatic joint alone.
RatNorm(v) ==
    LET sq == RatAdd(RatMul(v[1], v[1]), RatMul(v[2], v[2]))
    IN  <<ISqrt(sq[1]), ISqrt(sq[2])>>

\* The limit on the norm applied before the gain.
ScaleAndClip_GainLast(coll_component, gain, max_vel) ==
    LET final_norm == RatNorm(coll_component)
        clipped == IF RatLess(RatOf(max_vel), final_norm)
                   THEN [j \in Joints |->
                           RatMul(coll_component[j], RatDiv(RatOf(max_vel), final_norm))]
                   ELSE coll_component
    IN  [j \in Joints |-> RatMul(RatOf(gain), clipped[j])]

\* Lines 179-186: the gain and the limit on the norm.
ScaleAndClip(coll_component, gain, max_vel) ==
    LET scaled == [j \in Joints |-> RatMul(RatOf(gain), coll_component[j])]
        final_norm == RatNorm(scaled)
    IN  IF RatLess(RatOf(max_vel), final_norm)
        THEN [j \in Joints |-> RatMul(scaled[j], RatDiv(RatOf(max_vel), final_norm))]
        ELSE scaled

\* Lines 80-186: collision_avoidance_nullspace_component, given what
\* pinocchio reports for the pairs: the steps taken, coll_component after
\* the loop, and the vector returned, unless a step raised.
collision_avoidance_nullspace_component(rs, dist_padding, max_vel, damping, gain, invalid) ==
    LET steps == PairSteps(rs, dist_padding, damping, invalid)
        coll_component == Accumulate(steps, Len(steps))
    IN  IF \E k \in 1..Len(steps) : steps[k].raised
        THEN [raised |-> TRUE, steps |-> steps, coll_component |-> None, value |-> None]
        ELSE [raised |-> FALSE, steps |-> steps, coll_component |-> Some(coll_component),
              value |-> Some(ScaleAndClip(coll_component, gain, max_vel))]

\* What pinocchio and hpp-fcl (external) report for a pair: the distance
\* results of two bodies apart (beyond and within the padding, the second
\* body above or below the first), of two bodies touching, and of two
\* bodies in collision with the contact at the first or at the second body.
Apart(d, up) ==
    [isCollision |-> FALSE, distance_lower_bound |-> d, min_distance |-> d,
     contact_at_point1 |-> FALSE, normal |-> <<0, 0, 0>>, penetration_depth |-> 0,
     nearest_point1 |-> IF up THEN <<0, 0, 0>> ELSE <<0, 0, d>>,
     nearest_point2 |-> IF up THEN <<0, 0, d>> ELSE <<0, 0, 0>>]

InCollision(at_point1) ==
    [isCollision |-> TRUE, distance_lower_bound |-> -1, min_distance |-> -1,
     contact_at_point1 |-> at_point1, normal |-> <<0, 0, 1>>, penetration_depth |-> 1,
     nearest_point1 |-> <<0, 0, 0>>, nearest_point2 |-> <<0, 0, -1>>]

GeometryResults ==
    { Apart(3, TRUE), Apart(1, TRUE), Apart(1, FALSE), Apart(0, TRUE),
      InCollision(TRUE), InCollision(FALSE) }

\* The parent frames of the two bodies of a pair: frames of the robot, or,
\* for one of them, the index past the frames that stands for the universe.
ParentFrames ==
    { <<1, 2>>, <<2, 1>>, <<2, 2>>, <<nframes, 2>>, <<2, nframes>>, <<1, nframes>> }

\* The pairs: every choice of parent frames with two bodies near each other
\* or in collision, and every geometry result between the tool and link 1.
PairResults ==
    { [parent_frame1 |-> f[1], parent_frame2 |-> f[2], geometry |-> g] :
        f \in ParentFrames, g \in {Apart(1, TRUE), InCollision(TRUE)} }
    \cup
    { [parent_frame1 |-> f[1], parent_frame2 |-> f[2], geometry |-> g] :
        f \in {<<2, 1>>}, g \in GeometryResults }

\* The collision models: up to MaxPairs pairs.
PairLists == UNION { [1..n -> PairResults] : n \in 0..MaxPairs }

\* dist_padding, max_vel, damping and gain of a call.
CollisionSettings ==
    { [dist_padding |-> 2, max_vel |-> 1, damping |-> 1, gain |-> 1],
      [dist_padding |-> 2, max_vel |-> 1, damping |-> 1, gain |-> 4],
      [dist_padding |-> 2, max_vel |-> 2, damping |-> 1, gain |-> -1],
      [dist_padding |-> 1, max_vel |-> 0, damping |-> 1, gain |-> 3] }

\* The calls of joint_limit_nullspace_component.
JointLimitCalls ==
    { [fn |-> "joint_limit", q |-> q, gain |-> gain, padding |-> padding] :
        q \in [Joints -> -3..7], gain \in -1..2, padding \in 0..2 }

\* The calls of collision_avoidance_nullspace_component.
CollisionAvoidanceCalls ==
    { [fn |-> "collision_avoidance", pairs |-> rs, settings |-> s] :
        rs \in PairLists, s \in CollisionSettings }

\* A component is about to be called.
NullspaceInit ==
    /\ NoSolve
    /\ NoPlanner
    /\ NoPlanning
    /\ null_result = None
    /\ \E c \in JointLimitCalls \cup CollisionAvoidanceCalls : null_call = Some(c)

\* Lines 26-55.
JointLimitCall ==
    /\ null_result = None
    /\ null_call # None
    /\ null_call[1].fn = "joint_limit"
    /\ null_result' =
          Some([raised |-> FALSE, steps |-> <<>>, coll_component |-> None,
                value |-> Some(joint_limit_nullspace_component(
                              null_call[1].q, null_call[1].gain, null_call[1].padding))])
    /\ UNCHANGED <<ik_state, plan_state, planning_state, null_call>>

\* Lines 80-186.
CollisionAvoidanceCall ==
    /\ null_result = None
    /\ null_call # None
    /\ null_call[1].fn = "collision_avoidance"
    /\ \E invalid \in InvalidFrameOutcomes :
          null_result' =
              Some(collision_avoidance_nullspace_component(
                      null_call[1].pairs, null_call[1].settings.dist_padding,
                      null_call[1].settings.max_vel, null_call[1].settings.damping,
                      null_call[1].settings.gain, invalid))
    /\ UNCHANGED <<ik_state, plan_state, planning_state, null_call>>

NullspaceNext ==
    \/ JointLimitCall
    \/ CollisionAvoidanceCall

NullspaceSpec == NullspaceInit /\ [][NullspaceNext]_vars

\* ------------------------------------------------------------------------
\* Claims
\* ------------------------------------------------------------------------
Returned == pc = "done" /\ result # None

InsideLimits(q) ==
    \A j \in Joints : lowerPositionLimit[j] <= q[j] /\ q[j] <= upperPositionLimit[j]

\* C1: every configuration that solve returns lies within the joint limits
\* of the model, in every component.
C1_ReturnedWithinLimits == Returned => InsideLimits(result[1])

\* A configuration is returned after a retry and a gradient descent step.
C1_Witness == Returned /\ n_steps > 0 /\ n_tries > 0

\* C2: with a collision model attached solve never returns a configuration
\* that check_collisions_at_state reports in collision, and a converged
\* attempt whose wrapped configuration collides is not solved; without a
\* collision model no collision check is made and a converged configuration
\* within the limits is solved and returned.
C2_CollisionRejection ==
    /\ (Returned /\ collision_model # None)
            => ~check_collisions_at_state(collision_model[1], result[1])
    /\ (pc = "end_try" /\ converged /\ collision_model # None
            /\ check_collisions_at_state(collision_model[1], q_cur)) => ~solved
    /\ collision_model = None => ~collision_checked
    /\ (pc = "end_try" /\ converged /\ collision_model = None /\ InsideLimits(q_cur))
            => solved
    /\ (pc = "done" /\ solved) => result = Some(q_cur)

\* A converged configuration within the limits is rejected for its collision.
C2_Witness ==
    /\ pc = "end_try" /\ converged /\ ~solved
    /\ collision_model # None
    /\ InsideLimits(q_cur)
    /\ check_collisions_at_state(collision_model[1], q_cur)

\* C3: the forward kinematics pose of every configuration that solve returns
\* is within max_translation_error and max_rotation_error of the target pose.
C3_ReturnedMeetsTolerances ==
    Returned =>
        ToleranceMet(PoseError(target_tform, ForwardKinematics(result[1])), options)

\* C4 as stated: for any configuration q, solve with init_state = q and the
\* target pose equal to the forward kinematics of q returns q, takes no
\* update step and makes no random restart.
C4_ExactTargetReturnsInit ==
    (pc = "done" /\ init_arg # None
        /\ target_tform = ForwardKinematics(init_arg[1]))
    => (result = init_arg /\ n_steps = 0 /\ n_samples = 0)

\* The configurations for which C4 holds: within the joint limits, every
\* component in [-pi, pi), and not in collision when a collision model is
\* attached; at least one iteration is allowed.
C4_Applies ==
    /\ init_arg # None
    /\ target_tform = ForwardKinematics(init_arg[1])
    /\ InsideLimits(init_arg[1])
    /\ \A j \in Joints : -PI <= init_arg[1][j] /\ init_arg[1][j] < PI
    /\ collision_model # None
            => ~check_collisions_at_state(collision_model[1], init_arg[1])
    /\ options.max_iters >= 1

\* C4 (amended): for a configuration q within the joint limits, with every
\* component in [-pi, pi) and collision-free when a collision model is
\* attached, and with max_iters >= 1 and positive tolerances, solve with
\* init_state = q and the target pose equal to the forward kinematics of q
\* returns q, takes no update step and makes no random restart.
C4_ExactTargetReturnsInit_Amended ==
    (pc = "done" /\ C4_Applies)
    => (result = init_arg /\ n_steps = 0 /\ n_samples = 0 /\ attempts = 1)

\* solve has returned its init_state for the pose of that init_state.
C4_Witness == pc = "done" /\ C4_Applies /\ result = init_arg

\* A bound on the number of steps solve can still take: the tries left, each
\* worth max_iters iterations, the end of the inner loop and the end of the
\* try.
StepsLeft ==
    LET try == options.max_iters + 3
        tries_left == options.max_retries + 1 - n_tries
    IN  CASE pc = "call" -> (options.max_retries + 2) * try
          [] pc = "inner" -> tries_left * try + (options.max_iters - n_iters) + 2
          [] pc = "end_try" -> tries_left * try + 1
          [] pc = "return" -> 1
          [] OTHER -> 0

\* The next step of solve is defined: a state can be sampled, the damped
\* system J J^T + damping^2 I has an inverse and the error ratio of alpha
\* has a nonzero denominator.
StepDefined ==
    CASE pc = "call" -> init_arg # None \/ RandomStates # {}
      [] pc = "end_try" -> solved \/ RandomStates # {}
      [] pc = "inner" ->
            LET error == PoseError(target_tform, ForwardKinematics(q_cur))
                error_norm == Norm2(error.lin, error.ang)
            IN  (InnerLoopGuard(n_iters, options) /\ ~ToleranceMet(error, options))
                => /\ InitialErrorNorm(initial_error_norm, error_norm)[1] > 0
                   /\ \A j \in Joints : Jjt(JointKind[j], options) > 0
      [] OTHER -> TRUE

C6_AttemptStarts ==
    [][ /\ attempts' <= options.max_retries + 1
        /\ (attempts' # attempts) =>
            /\ attempts' = attempts + 1
            /\ IF attempts = 0 /\ init_arg # None
               THEN q_cur' = init_arg[1] /\ n_samples' = 0
               ELSE /\ n_samples' = n_samples + 1
                    /\ last_sample' = Some(q_cur')
                    /\ InsideLimits(q_cur')
      ]_vars

\* A third attempt has started from a sampled state.
C6_Witness == pc = "inner" /\ attempts = 3 /\ n_iters = 0 /\ last_sample = Some(q_cur)

\* C7: once an attempt is solved no other attempt starts, no state is
\* sampled and no update step is taken, and solve returns the wrapped
\* configuration that passed the joint limit and collision checks.
C7_SolvedReturnsAtOnce ==
    /\ [][ solved =>
            /\ solved'
            /\ attempts' = attempts
            /\ n_samples' = n_samples
            /\ n_steps' = n_steps
            /\ q_cur' = q_cur
            /\ checked' = checked
            /\ pc' \in {"return", "done"} ]_vars
    /\ []((pc = "done" /\ solved) => (result = checked /\ result = Some(q_cur)))
    /\ [](solved => (converged /\ checked = Some(q_cur)))

\* solve has returned a configuration found at a retry.
C7_Witness == pc = "done" /\ solved /\ result = checked /\ attempts = 2 /\ n_steps > 0

\* C8: the caller's init_state array holds after the call what it held
\* before it.
C8_InitStateUnchanged == caller_array = init_arg

\* C9: every update step computes alpha from the ratio of the current error
\* norm to the error norm of the first iteration of the same attempt; the
\* first update step of every attempt uses alpha = min_step_size.
C9_AlphaFromAttemptNorm ==
    alpha # None =>
        /\ RatEq(alpha[1], StepScale(step_norm, first_norm[1], options))
        /\ n_iters = 1 => RatEq(alpha[1], options.min_step_size)

\* C10: at every update step min_step_size <= alpha <= max_step_size.
C10_AlphaWithinStepSizes ==
    alpha # None =>
        /\ RatLeq(options.min_step_size, alpha[1])
        /\ RatLeq(alpha[1], options.max_step_size)

\* ------------------------------------------------------------------------
\* Claims about CubicTrajectoryOptimization
\* ------------------------------------------------------------------------
\* The waypoint list of the latest plan call has a length that is neither 2
\* nor num_waypoints.
WrongLength ==
    /\ q_path # None
    /\ Len(q_path[1]) \notin {2, plan_options[1].num_waypoints}

\* C11, as stated: a plan call with a waypoint list whose length is neither
\* 2 nor num_waypoints, the empty list included, raises ValueError, and no
\* decision variable is created and the solver is not called.
C11_WrongLengthRaises ==
    WrongLength =>
        /\ outcome = "ValueError"
        /\ prog = None
        /\ solver_calls = 0

\* C11, amended: a non-empty waypoint list whose length is neither 2 nor
\* num_waypoints raises ValueError; the empty list makes plan warn and
\* return None; in both cases the call ends at once, with no decision
\* variable created, no limit processed and the solver not called.
C11_WrongLengthRaises_Amended ==
    WrongLength =>
        /\ outcome = (IF Len(q_path[1]) = 0 THEN "warned" ELSE "ValueError")
        /\ returned = None
        /\ plan_pc = "ready"
        /\ limits = None
        /\ prog = None
        /\ solver_calls = 0

\* A second call, with three waypoints on a planner of two, has raised.
C11_Witness ==
    /\ WrongLength
    /\ num_calls = 2
    /\ Len(q_path[1]) = 3
    /\ outcome = "ValueError"

\* C12: a constructor call with num_waypoints < 2 or min_segment_time <= 0
\* raises ValueError and leaves no options object, so every options object
\* has num_waypoints >= 2 and min_segment_time > 0 (the object holds the
\* arguments it was built from); every duration bound registered from it
\* has a positive lower end, and no duration of a successful result is zero.
C12_OptionsValidated ==
    /\ plan_pc = "stopped" => (plan_options = None /\ outcome = "ValueError")
    /\ plan_options # None =>
          /\ plan_options[1].num_waypoints >= 2
          /\ plan_options[1].min_segment_time > 0
    /\ prog # None =>
          \A i \in 1..Len(prog[1].constraints) :
              prog[1].constraints[i].kind = "h" =>
                  \A k \in 1..Len(prog[1].constraints[i].lb) :
                      prog[1].constraints[i].lb[k] > 0
    /\ (solve_result # None /\ solve_result[1].is_success) =>
          \A k \in 1..Len(solve_result[1].h) : solve_result[1].h[k] # 0

\* The constructor has raised: no options object exists.
C12_Witness == plan_pc = "stopped" /\ plan_options = None /\ outcome = "ValueError"

\* The latest plan call got past the test of the waypoint list.
PathAccepted == q_path # None /\ ~WrongLength

\* The limit called name, as the options hold it.
LimitArg(name) == plan_options[1][name]

FixedTo(p, var, k, v) ==
    \E i \in 1..Len(p.constraints) :
        /\ p.constraints[i].kind = var
        /\ p.constraints[i].k = k
        /\ p.constraints[i].lb = v
        /\ p.constraints[i].ub = v

\* The program p holds no bounding box on row k of var.
Unbounded(p, var, k) ==
    \A i \in 1..Len(p.constraints) :
        ~(p.constraints[i].kind = var /\ p.constraints[i].k = k)

\* C14: the program of a plan call fixes the first waypoint to q_path[0]
\* and the last to q_path[-1], every waypoint when q_path has num_waypoints
\* entries, no interior waypoint when q_path has 2 < num_waypoints entries,
\* and the first and last waypoint velocities to zero; a returned
\* trajectory starts at q_path[0], ends at q_path[-1] and has zero velocity
\* at both ends.
C14_BoundaryConditions ==
    /\ prog # None =>
        LET p == prog[1]
            path == q_path[1]
            nw == plan_options[1].num_waypoints
        IN  /\ FixedTo(p, "x", 0, path[1])
            /\ FixedTo(p, "x", nw - 1, path[Len(path)])
            /\ Len(path) = nw => \A k \in 0..(nw - 1) : FixedTo(p, "x", k, path[k + 1])
            /\ (Len(path) = 2 /\ 2 < nw) => \A k \in 1..(nw - 2) : Unbounded(p, "x", k)
            /\ FixedTo(p, "x_d", 0, Zeros(Len(path[1])))
            /\ FixedTo(p, "x_d", nw - 1, Zeros(Len(path[1])))
    /\ (outcome = "trajectory" /\ returned # None) =>
        LET path == q_path[1]
            nw == plan_options[1].num_waypoints
            trajectory == returned[1]
        IN  \A n \in 1..Len(path[1]) :
                /\ trajectory.q[n][1] = path[1][n]
                /\ trajectory.q[n][nw] = path[Len(path)][n]
                /\ trajectory.qd[n][1] = 0
                /\ trajectory.qd[n][nw] = 0

\* A plan from a start to a goal over three waypoints has returned a
\* trajectory whose interior waypoint is neither the start nor the goal and
\* is passed with a velocity that is not zero.
C14_Witness ==
    /\ outcome = "trajectory"
    /\ returned # None
    /\ Len(q_path[1]) = 2
    /\ plan_options[1].num_waypoints = 3
    /\ returned[1].q[1][2] \notin {q_path[1][1][1], q_path[1][2][1]}
    /\ returned[1].qd[1][2] # 0

\* C15: when plan returns a trajectory, each of the num_waypoints - 1
\* durations of the result lies in [min_segment_time, max_segment_time] and
\* is positive, and the time vector of the trajectory has num_waypoints
\* entries, starts at 0, increases strictly by the durations and ends at
\* their sum.
C15_DurationsAndTimes ==
    (outcome = "trajectory" /\ returned # None) =>
        LET o == plan_options[1]
            h_opt == solve_result[1].h
            t == returned[1].t
        IN  /\ Len(h_opt) = o.num_waypoints - 1
            /\ \A k \in 1..Len(h_opt) :
                  /\ o.min_segment_time <= h_opt[k]
                  /\ h_opt[k] <= o.max_segment_time
                  /\ h_opt[k] > 0
            /\ Len(t) = o.num_waypoints
            /\ t[1] = 0
            /\ \A i \in 1..(Len(t) - 1) : t[i] < t[i + 1] /\ t[i + 1] - t[i] = h_opt[i]
            /\ t[Len(t)] = SumTo(h_opt, Len(h_opt))

\* A trajectory over three waypoints with two segments of duration 2.
C15_Witness ==
    /\ outcome = "trajectory"
    /\ returned # None
    /\ returned[1].t = <<0, 2, 4>>

\* The number of collision constraints the program p holds on row k of var
\* with the lower bound min_dist and no upper bound for each listed body.
CollisionConstraintsAt(p, var, k, min_dist) ==
    Cardinality({ i \in 1..Len(p.constraints) :
        /\ p.constraints[i].kind = "collision"
        /\ p.constraints[i].var = var
        /\ p.constraints[i].k = k
        /\ p.constraints[i].lb = [b \in 1..Len(link_list) |-> min_dist]
        /\ p.constraints[i].ub = [b \in 1..Len(link_list) |-> Inf] })

\* The number of collision constraints the program p holds.
CollisionConstraintCount(p) ==
    Cardinality({ i \in 1..Len(p.constraints) : p.constraints[i].kind = "collision" })

\* C16, as stated: with check_collisions the program holds the collision
\* constraint at every waypoint and at every collocation point; without it
\* the program holds no collision constraint.
C16_CollisionConstraintsEverywhere ==
    prog # None =>
        LET o == plan_options[1]
        IN  IF o.check_collisions
            THEN /\ \A k \in 0..(o.num_waypoints - 1) :
                        CollisionConstraintsAt(prog[1], "x", k, o.min_collision_dist) >= 1
                 /\ \A k \in 0..(o.num_waypoints - 2) :
                        CollisionConstraintsAt(prog[1], "xc", k, o.min_collision_dist) >= 1
            ELSE CollisionConstraintCount(prog[1]) = 0

\* C16, amended: with check_collisions the program holds the collision
\* constraint once at every interior waypoint (1 .. num_waypoints - 2) and
\* once at every collocation point, and none at the first and the last
\* waypoint; without it the program holds no collision constraint.
C16_CollisionConstraintsInterior ==
    prog # None =>
        LET o == plan_options[1]
        IN  IF o.check_collisions
            THEN /\ \A k \in 1..(o.num_waypoints - 2) :
                        CollisionConstraintsAt(prog[1], "x", k, o.min_collision_dist) = 1
                 /\ \A k \in 0..(o.num_waypoints - 2) :
                        CollisionConstraintsAt(prog[1], "xc", k, o.min_collision_dist) = 1
                 /\ CollisionConstraintsAt(prog[1], "x", 0, o.min_collision_dist) = 0
                 /\ CollisionConstraintsAt(prog[1], "x", o.num_waypoints - 1,
                                           o.min_collision_dist) = 0
                 /\ CollisionConstraintCount(prog[1]) = 2 * o.num_waypoints - 3
            ELSE CollisionConstraintCount(prog[1]) = 0

\* A program over three waypoints with collision checking: one constraint
\* at the interior waypoint and one at each of the two collocation points.
C16_Witness ==
    /\ prog # None
    /\ plan_options[1].check_collisions
    /\ plan_options[1].num_waypoints = 3
    /\ CollisionConstraintCount(prog[1]) = 3
    /\ CollisionConstraintsAt(prog[1], "x", 1, plan_options[1].min_collision_dist) = 1

\* The pairs of a body that are within influence_dist at q.
PairsWithin(pairs, q, influence_dist) ==
    SelectSeq(pairs, LAMBDA p : RatLeq(min_distance(p, q), RatOf(influence_dist)))

\* C17: in an evaluation of _collision_constraint, the value and gradient
\* returned for a body are those its pairs within collision_influence_dist
\* determine (a pair beyond it changes neither), and when every pair of the
\* body is beyond collision_influence_dist the value is
\* collision_influence_dist with a zero gradient and satisfies the
\* registered bound value >= min_collision_dist.
C17_FarPairsIgnored ==
    collision_eval # None =>
        LET o == plan_options[1]
            q == [j \in Joints |-> RatOf(collision_eval[1].q_val[j])]
            out == collision_eval[1].autodiffs
        IN  \A b \in 1..Len(all_pairs) :
                LET near == PairsWithin(all_pairs[b], q, o.collision_influence_dist)
                IN  /\ out[b] = BodyDistance(near, q, o.collision_influence_dist)
                    /\ near = <<>> =>
                          /\ out[b].value = RatOf(o.collision_influence_dist)
                          /\ out[b].gradient = [j \in Joints |-> 0]
                          /\ RatLeq(RatOf(o.min_collision_dist), out[b].value)

\* The number of acceleration continuity equalities the program p holds
\* between the segments k and k + 1 for the degree of freedom n.
ContinuityConstraintsAt(p, k, n) ==
    Cardinality({ i \in 1..Len(p.constraints) :
        /\ p.constraints[i].kind = "acceleration_continuity"
        /\ p.constraints[i].k = k
        /\ p.constraints[i].n = n
        /\ p.constraints[i].lb = <<0>>
        /\ p.constraints[i].ub = <<0>> })

\* C18: the program holds exactly one acceleration continuity equality for
\* each interior waypoint (segments k and k + 1, k = 0 .. num_waypoints - 3)
\* and degree of freedom, and no other, hence none when num_waypoints = 2;
\* in a successful result the acceleration at the end of segment k (step 1)
\* equals the acceleration at the start of segment k + 1 (step 0).
C18_AccelerationContinuity ==
    /\ prog # None =>
        LET nw == plan_options[1].num_waypoints
            num_dofs == Len(q_path[1][1])
        IN  /\ \A k \in 0..(nw - 3) : \A n \in 0..(num_dofs - 1) :
                    ContinuityConstraintsAt(prog[1], k, n) = 1
            /\ Cardinality({ i \in 1..Len(prog[1].constraints) :
                    prog[1].constraints[i].kind = "acceleration_continuity" })
                = (nw - 2) * num_dofs
    /\ (solve_result # None /\ solve_result[1].is_success) =>
        LET s == WithCollocation(solve_result[1].x, solve_result[1].x_d, solve_result[1].h)
        IN  \A k \in 0..(Len(s.h) - 2) : \A n \in 0..(Len(s.x[1]) - 1) :
                eval_acceleration(s.x_d, s.xc_d, s.h, k, n, <<1, 1>>)
                    = eval_acceleration(s.x_d, s.xc_d, s.h, k + 1, n, <<0, 1>>)

\* A successful result over three waypoints whose acceleration at the
\* interior waypoint is the same from both sides and not zero.
C18_Witness ==
    /\ solve_result # None
    /\ solve_result[1].is_success
    /\ Len(solve_result[1].h) = 2
    /\ ContinuityConstraintsAt(prog[1], 0, 0) = 1
    /\ LET s == WithCollocation(solve_result[1].x, solve_result[1].x_d, solve_result[1].h)
       IN  eval_acceleration(s.x_d, s.xc_d, s.h, 0, 0, <<1, 1>>)[1] # 0

\* The parameters at which the program p constrains the expression kind of
\* segment k and degree of freedom n between lb and ub, in lowest terms.
SampledAt(p, kind, k, n, lb, ub) ==
    { Rat(p.constraints[i].step[1], p.constraints[i].step[2]) :
        i \in { j \in 1..Len(p.constraints) :
                  /\ p.constraints[j].kind = kind
                  /\ p.constraints[j].k = k
                  /\ p.constraints[j].n = n
                  /\ p.constraints[j].lb = lb
                  /\ p.constraints[j].ub = ub } }

\* S holds num evenly spaced parameters of [0, 1] counted from 0.
EvenlySpaced(S, num) ==
    /\ Cardinality(S) = num
    /\ \A s \in S : \E i \in 0..(num - 1) : s[1] * (num - 1) = i * s[2]

Endpoints == { <<0, 1>>, <<1, 1>> }

\* The limit constraints of segment k and degree of freedom n: position and
\* velocity at evenly spaced parameters, acceleration and jerk at the steps
\* 0 and 1, each against the limit of that degree of freedom.
SampledLimits(p, o, lims, k, n, with_endpoints) ==
    LET m == n + 1
        positions == { SampledAt(p, "position", k, n, <<-Inf>>, <<upperPositionLimit[m]>>),
                       SampledAt(p, "position", k, n, <<lowerPositionLimit[m]>>, <<Inf>>) }
        velocities == { SampledAt(p, "velocity", k, n, <<lims.min_vel[m]>>, <<Inf>>),
                        SampledAt(p, "velocity", k, n, <<-Inf>>, <<lims.max_vel[m]>>) }
        at_ends == { SampledAt(p, "acceleration", k, n, <<lims.min_accel[m]>>, <<Inf>>),
                     SampledAt(p, "acceleration", k, n, <<-Inf>>, <<lims.max_accel[m]>>),
                     SampledAt(p, "jerk", k, n, <<lims.min_jerk[m]>>, <<Inf>>),
                     SampledAt(p, "jerk", k, n, <<-Inf>>, <<lims.max_jerk[m]>>) }
    IN  /\ \A S \in positions \cup velocities :
              /\ EvenlySpaced(S, o.samples_per_segment)
              /\ with_endpoints => Endpoints \subseteq S
        /\ \A S \in at_ends : S = Endpoints

\* C19 as stated: for every segment and degree of freedom the position and
\* velocity limits are constrained at samples_per_segment evenly spaced
\* parameters of [0, 1] that include both endpoints (whenever there is a
\* sample at all), and the acceleration and jerk limits at the steps 0 and 1.
C19_SampledLimits ==
    prog # None =>
        \A k \in 0..(plan_options[1].num_waypoints - 2) :
            \A n \in 0..(Len(q_path[1][1]) - 1) :
                SampledLimits(prog[1], plan_options[1], limits[1], k, n,
                              plan_options[1].samples_per_segment >= 1)

\* C19 amended: the samples_per_segment evenly spaced parameters include
\* both endpoints when samples_per_segment >= 2; a single sample is the
\* parameter 0 alone.
C19_SampledLimits_Amended ==
    prog # None =>
        \A k \in 0..(plan_options[1].num_waypoints - 2) :
            \A n \in 0..(Len(q_path[1][1]) - 1) :
                /\ SampledLimits(prog[1], plan_options[1], limits[1], k, n,
                                 plan_options[1].samples_per_segment >= 2)
                /\ plan_options[1].samples_per_segment = 1 =>
                      SampledAt(prog[1], "position", k, n,
                                <<-Inf>>, <<upperPositionLimit[n + 1]>>) = { <<0, 1>> }

\* A program over three waypoints with three samples per segment: the
\* velocity of the second segment is constrained at 0, 1/2 and 1.
C19_Witness ==
    /\ prog # None
    /\ plan_options[1].num_waypoints = 3
    /\ plan_options[1].samples_per_segment = 3
    /\ SampledAt(prog[1], "velocity", 1, 0, <<-Inf>>, <<limits[1].max_vel[1]>>)
           = { <<0, 1>>, <<1, 2>>, <<1, 1>> }

\* C20: when the solver reports failure plan returns None and
\* latest_trajectory is what it was before the call; throughout a call
\* that has not ended with success no trajectory is returned and
\* latest_trajectory is untouched, and a returned trajectory is the one made
\* from the values of a successful result.
C20_FailureReturnsNone ==
    /\ outcome = "failed" =>
          /\ solve_result # None
          /\ ~solve_result[1].is_success
          /\ returned = None
          /\ latest_trajectory = trajectory_before
    /\ outcome # "trajectory" =>
          /\ returned = None
          /\ latest_trajectory = trajectory_before
    /\ returned # None =>
          /\ solve_result # None
          /\ solve_result[1].is_success
          /\ returned[1].q = Transpose(solve_result[1].x)
          /\ latest_trajectory = returned

\* The second call fails after the first produced a trajectory, which is
\* still there, while the failed solver's values differ from it.
C20_Witness ==
    /\ outcome = "failed"
    /\ num_calls = 2
    /\ trajectory_before # None
    /\ latest_trajectory = trajectory_before
    /\ latest_trajectory[1].q # Transpose(solve_result[1].x)


\* C21: the initial guess of every segment duration is the midpoint
\* (min_segment_time + max_segment_time) / 2 of its bounds and lies inside
\* [min_segment_time, max_segment_time].
C21_DurationGuessMidpoint ==
    prog # None =>
        LET o == plan_options[1]
            h_init == prog[1].guess.h
        IN  \A k \in 1..Len(h_init) :
                /\ RatEq(h_init[k], <<o.min_segment_time + o.max_segment_time, 2>>)
                /\ RatLeq(RatOf(o.min_segment_time), h_init[k])
                /\ RatLeq(h_init[k], RatOf(o.max_segment_time))


\* A sequence in the opposite order.
Reversed(s) == [i \in 1..Len(s) |-> s[Len(s) + 1 - i]]

\* C29: in an evaluation of _collision_constraint, for each body that has a
\* pair within collision_influence_dist, the value is the smallest distance
\* among those pairs; when a pair is closer than collision_influence_dist
\* the gradient is the closest pair's separation Jacobian times the sign of
\* that same distance, and listing the body's pairs in the opposite order
\* gives the same gradient.
C29_ValueAndGradientOfSamePair ==
    collision_eval # None =>
        LET infl == plan_options[1].collision_influence_dist
            q == [j \in Joints |-> RatOf(collision_eval[1].q_val[j])]
            out == collision_eval[1].autodiffs
        IN  \A b \in 1..Len(all_pairs) :
                LET near == PairsWithin(all_pairs[b], q, infl)
                IN  near # <<>> =>
                      \E i \in 1..Len(near) :
                          /\ \A j \in 1..Len(near) :
                                RatLeq(min_distance(near[i], q), min_distance(near[j], q))
                          /\ out[b].value = min_distance(near[i], q)
                          /\ RatLess(out[b].value, RatOf(infl)) =>
                                /\ out[b].gradient =
                                      [j \in Joints |->
                                          Sign(out[b].value) * separation_jacobian(near[i])[j]]
                                /\ out[b].gradient =
                                      BodyDistance(Reversed(all_pairs[b]), q, infl).gradient


\* The interpolant of segment k and degree of freedom n of the values s
\* passes through the waypoints and the collocation point.
InterpolantConsistent(s, k, n) ==
    /\ eval_position(s.x, s.x_d, s.xc_d, s.h, k, n, <<0, 1>>) = At(s.x, k, n)
    /\ eval_position(s.x, s.x_d, s.xc_d, s.h, k, n, <<1, 2>>) = s.xc[k + 1][n + 1]
    /\ eval_position(s.x, s.x_d, s.xc_d, s.h, k, n, <<1, 1>>) = At(s.x, k + 1, n)
    /\ eval_velocity(s.x_d, s.xc_d, s.h, k, n, <<0, 1>>) = At(s.x_d, k, n)
    /\ eval_velocity(s.x_d, s.xc_d, s.h, k, n, <<1, 2>>) = s.xc_d[k + 1][n + 1]
    /\ eval_velocity(s.x_d, s.xc_d, s.h, k, n, <<1, 1>>) = At(s.x_d, k + 1, n)

\* C28: for the values a solve returned, every segment with duration
\* h > 0 whose collocation position and velocity satisfy the two
\* collocation equalities has _eval_position at the steps 0, 1/2 and 1 equal
\* to x[k], xc[k] and x[k+1], and _eval_velocity there equal to x_d[k],
\* xc_d[k] and x_d[k+1].
C28_InterpolantThroughWaypoints ==
    solve_result # None =>
        LET s == WithCollocation(solve_result[1].x, solve_result[1].x_d, solve_result[1].h)
        IN  \A k \in 0..(Len(s.h) - 1) : \A n \in 0..(Len(s.x[1]) - 1) :
                (/\ s.h[k + 1] > 0
                 /\ Satisfies(s, Constraint("xc", "xc", k, n, None, <<0>>, <<0>>), plan_options[1])
                 /\ Satisfies(s, Constraint("xc_d", "xc_d", k, n, None, <<0>>, <<0>>),
                              plan_options[1]))
                    => InterpolantConsistent(s, k, n)

\* A solution over three waypoints whose first segment ends with a nonzero
\* velocity, so that its collocation position is not the midpoint of the
\* two waypoints, and whose interpolant is consistent.
C28_Witness ==
    /\ solve_result # None
    /\ solve_result[1].is_success
    /\ Len(solve_result[1].h) = 2
    /\ solve_result[1].x_d[2][1] # 0
    /\ LET s == WithCollocation(solve_result[1].x, solve_result[1].x_d, solve_result[1].h)
       IN  /\ ~RatEq(s.xc[1][1], <<s.x[1][1] + s.x[2][1], 2>>)
           /\ s.xc_d[1][1][1] # 0
           /\ InterpolantConsistent(s, 0, 0)


\* The number of constraints of the program p on the expression kind of
\* segment k and degree of freedom n.
SampledConstraintCount(p, kind, k, n) ==
    Cardinality({ i \in 1..Len(p.constraints) :
        /\ p.constraints[i].kind = kind
        /\ p.constraints[i].k = k
        /\ p.constraints[i].n = n })

\* C27: the program of the planner of planning/trajectory_optimization.py
\* holds sampled velocity, acceleration and jerk limit constraints for every
\* segment k in 0 .. num_waypoints - 2 and every degree of freedom.
C27_LimitsOnEverySegment ==
    planning_prog # None =>
        \A k \in 0..(planning_options.num_waypoints - 2) :
            \A n \in 0..(Len(planning_args[1][1]) - 1) :
                \A kind \in {"velocity", "acceleration", "jerk"} :
                    SampledConstraintCount(planning_prog[1], kind, k, n) > 0


\* The tolerance test of lines 169-172 passes at the current configuration.
MeetsTolerances == ToleranceMet(PoseError(target_tform, ForwardKinematics(q_cur)), options)

\* C26: an iteration that meets both tolerances while the wrapped
\* configuration is outside the joint limits or in collision ends its
\* attempt at once, with no update step and solved still false; the attempt
\* that follows, if one remains, starts from a newly sampled configuration
\* within the joint limits with n_iters = 0; and the joint-limit and
\* collision checks are made at a converged iteration only.
C26_ConvergedButRejected ==
    [][/\ (/\ pc = "inner"
           /\ n_iters < options.max_iters
           /\ MeetsTolerances
           /\ ~SolvedAfterChecks(collision_model, WrapToPi(q_cur)))
          => /\ pc' = "end_try"
             /\ ~solved'
             /\ n_steps' = n_steps
             /\ n_iters' = n_iters
       /\ (pc = "end_try" /\ converged /\ ~solved)
          => /\ ~solved'
             /\ n_steps' = n_steps
             /\ IF n_tries + 1 <= options.max_retries
                THEN /\ pc' = "inner"
                     /\ n_iters' = 0
                     /\ n_tries' = n_tries + 1
                     /\ n_samples' = n_samples + 1
                     /\ last_sample' = Some(q_cur')
                     /\ check_within_limits(q_cur')
                ELSE pc' = "return"
       /\ (solved' # solved \/ checked' # checked \/ collision_checked' # collision_checked)
          => /\ pc = "inner"
             /\ n_iters < options.max_iters
             /\ MeetsTolerances
      ]_vars

\* The second attempt met the tolerances at its sampled configuration, was
\* rejected by the collision check, and another attempt remains.
C26_Witness ==
    /\ pc = "end_try"
    /\ converged
    /\ ~solved
    /\ collision_checked
    /\ n_tries = 1
    /\ n_iters = 0
    /\ options.max_retries = 2
    /\ check_within_limits(q_cur)


\* The tolerance tests made so far in the current attempt: one at the start
\* of each iteration begun.
ToleranceTests == n_iters + (IF converged /\ pc # "inner" THEN 1 ELSE 0)

\* C30: an attempt makes at most max_iters tolerance tests and at most
\* max_iters update steps; an update step follows a failed tolerance test
\* of the same iteration; the configuration the max_iters-th update step
\* produced is not tested, the attempt ends unsolved, and solve goes on
\* with a new sample or returns None; with max_iters = 0 solve makes no
\* test and returns None.
C30_TestBeforeUpdate ==
    [][/\ n_iters' <= options.max_iters
       /\ ToleranceTests' <= options.max_iters
       /\ n_steps' # n_steps
          => /\ pc = "inner"
             /\ n_iters < options.max_iters
             /\ ~MeetsTolerances
             /\ n_steps' = n_steps + 1
             /\ n_iters' = n_iters + 1
       /\ (pc = "inner" /\ n_iters >= options.max_iters)
          => /\ pc' = "end_try"
             /\ q_cur' = q_cur
             /\ ~solved'
             /\ ~converged'
             /\ checked' = checked
             /\ collision_checked' = collision_checked
       /\ (pc = "end_try" /\ ~converged)
          => /\ ~solved'
             /\ \/ pc' = "inner" /\ last_sample' = Some(q_cur') /\ n_samples' = n_samples + 1
                \/ pc' = "return"
       /\ (pc = "return" /\ ~solved) => result' = None
       /\ options.max_iters = 0
          => /\ ~converged'
             /\ ~solved'
             /\ n_steps' = 0
             /\ pc' = "done" => result' = None
      ]_vars

\* solve has returned None with max_iters = 0 although the initial state
\* given meets both tolerances.
C30_Witness ==
    /\ pc = "done"
    /\ options.max_iters = 0
    /\ result = None
    /\ init_arg # None
    /\ ToleranceMet(PoseError(target_tform, ForwardKinematics(init_arg[1])), options)
    /\ check_within_limits(init_arg[1])


\* The call made was of collision_avoidance_nullspace_component and has ended.
CollisionAvoidanceEnded ==
    /\ null_result # None
    /\ null_call[1].fn = "collision_avoidance"

\* C22: for every pair that is not skipped the Jacobian is asked for at a
\* frame of the model: at the other parent frame when exactly one of the
\* two is past the model's frames, at the higher-indexed one when both are
\* frames of the model; and the distance vector is negated exactly when the
\* frame chosen is that of the pair's second member.
C22_JacobianAtValidFrame ==
    CollisionAvoidanceEnded =>
        \A k \in 1..Len(null_result[1].steps) :
            LET step == null_result[1].steps[k]
                r == null_call[1].pairs[step.pair]
                valid1 == r.parent_frame1 < nframes
                valid2 == r.parent_frame2 < nframes
            IN  /\ step.frame < nframes
                /\ (valid1 /\ ~valid2) => step.frame = r.parent_frame1
                /\ (~valid1 /\ valid2) => step.frame = r.parent_frame2
                /\ (valid1 /\ valid2) =>
                      /\ step.frame \in {r.parent_frame1, r.parent_frame2}
                      /\ step.frame >= r.parent_frame1
                      /\ step.frame >= r.parent_frame2
                /\ r.parent_frame1 # r.parent_frame2 =>
                      (step.negated <=> step.frame = r.parent_frame2)


\* A vector of rationals times a rational.
RatScale(v, c) == [j \in 1..Len(v) |-> RatMul(v[j], c)]

\* C23: the vector collision_avoidance_nullspace_component returns has norm
\* <= max_vel; with scaled = gain * coll_component, it is scaled itself when
\* the norm of scaled is at most max_vel, and otherwise scaled shortened to
\* the norm max_vel along its own direction.
C23_NormAtMostMaxVel ==
    (CollisionAvoidanceEnded /\ ~null_result[1].raised) =>
        LET max_vel == RatOf(null_call[1].settings.max_vel)
            value == null_result[1].value[1]
            scaled == RatScale(null_result[1].coll_component[1],
                               RatOf(null_call[1].settings.gain))
            norm == RatNorm(scaled)
        IN  /\ RatLeq(RatNorm(value), max_vel)
            /\ RatLeq(norm, max_vel) => value = scaled
            /\ RatLess(max_vel, norm) =>
                  /\ RatNorm(value) = max_vel
                  /\ RatScale(value, norm) = RatScale(scaled, max_vel)

\* A call with gain 4 whose scaled vector has norm 2 > max_vel = 1: the
\* vector returned has norm 1 and the direction of the scaled one.
C23_Witness ==
    /\ CollisionAvoidanceEnded
    /\ ~null_result[1].raised
    /\ null_call[1].settings.gain = 4
    /\ null_call[1].settings.max_vel = 1
    /\ RatNorm(RatScale(null_result[1].coll_component[1], RatOf(4))) = <<2, 1>>
    /\ RatNorm(null_result[1].value[1]) = <<1, 1>>
    /\ null_result[1].value[1][2] = <<-1, 1>>


\* The sum over the first n steps of entry j of delta_q.
RECURSIVE DeltaSum(_, _, _)
DeltaSum(steps, n, j) ==
    IF n = 0 THEN RatOf(0) ELSE RatAdd(DeltaSum(steps, n - 1, j), steps[n].delta_q[j])

\* The pairs of a call whose distance is at most dist_padding.
WithinPadding ==
    { p \in 1..Len(null_call[1].pairs) :
        CollisionDistance(null_call[1].pairs[p]) <= null_call[1].settings.dist_padding }

\* C25: only the pairs whose distance is <= dist_padding contribute to what
\* collision_avoidance_nullspace_component returns: it takes a step for
\* those pairs and no other, coll_component is minus the sum of their
\* delta_q, and when every pair is farther than dist_padding the vector
\* returned is zero.
C25_OnlyPairsWithinPadding ==
    (CollisionAvoidanceEnded /\ ~null_result[1].raised) =>
        LET steps == null_result[1].steps
        IN  /\ { steps[k].pair : k \in 1..Len(steps) } = WithinPadding
            /\ Len(steps) = Cardinality(WithinPadding)
            /\ \A j \in Joints :
                  null_result[1].coll_component[1][j]
                      = RatSub(RatOf(0), DeltaSum(steps, Len(steps), j))
            /\ WithinPadding = {} =>
                  null_result[1].value[1] = [j \in Joints |-> RatOf(0)]

\* A call with one pair within the padding, which moves the result, and
\* one pair beyond it.
C25_Witness ==
    /\ CollisionAvoidanceEnded
    /\ ~null_result[1].raised
    /\ Len(null_call[1].pairs) = 2
    /\ WithinPadding = {2}
    /\ null_result[1].value[1][2] # RatOf(0)


\* The call made was of joint_limit_nullspace_component and has ended.
JointLimitEnded ==
    /\ null_result # None
    /\ null_call[1].fn = "joint_limit"

\* Entry i of what joint_limit_nullspace_component returned is as C24 says,
\* the lower case applying whenever q[i] < lower[i] + padding if
\* lower_always, and only when the upper case does not apply otherwise.
JointLimitEntry(i, lower_always) ==
    LET q == null_call[1].q
        gain == null_call[1].gain
        upper == upperPositionLimit[i] - null_call[1].padding
        lower == lowerPositionLimit[i] + null_call[1].padding
        grad == null_result[1].value[1]
    IN  /\ q[i] > upper => grad[i] = -gain * (q[i] - upper)
        /\ (q[i] < lower /\ (lower_always \/ q[i] <= upper))
              => grad[i] = -gain * (q[i] - lower)
        /\ (q[i] <= upper /\ q[i] >= lower) => grad[i] = 0
        /\ gain > 0 =>
              /\ grad[i] < 0 => q[i] > upper
              /\ grad[i] > 0 => q[i] < lower

\* C24 as stated: each entry of the result is -gain * (q[i] - (upper[i] -
\* padding)) when q[i] > upper[i] - padding, -gain * (q[i] - (lower[i] +
\* padding)) when q[i] < lower[i] + padding, and 0 otherwise; for gain > 0 a
\* nonzero entry points back toward the padded interval.
C24_JointLimitTerms ==
    JointLimitEnded => \A i \in Joints : JointLimitEntry(i, TRUE)

\* C24 amended: the lower case applies when q[i] < lower[i] + padding and
\* q[i] <= upper[i] - padding; a q[i] above upper[i] - padding gets the upper
\* case even when it is below lower[i] + padding.
C24_JointLimitTerms_Amended ==
    JointLimitEnded => \A i \in Joints : JointLimitEntry(i, FALSE)

\* A call with gain 2 and padding 1 in which the first joint is above its
\* padded upper limit and the second below its padded lower limit.
C24_Witness ==
    /\ JointLimitEnded
    /\ null_call[1].gain = 2
    /\ null_call[1].padding = 1
    /\ null_call[1].q = <<6, 0>>
    /\ null_result[1].value[1] = <<-4, 2>>

====
